---- MODULE Spec2Model ----
(***************************************************************************)
(* Verification model of the M65832 LLVM backend: instruction lowering,    *)
(* post-RA pseudo expansion, frame lowering, call lowering and the         *)
(* relocation/encoding path.                                               *)
(*                                                                         *)
(* 32-bit machine words are kept at their true width.  A word is held as   *)
(* the two's-complement integer in MinInt32 .. MaxInt32; unsigned order    *)
(* and the sign of a wrapped difference are computed without leaving that  *)
(* range.                                                                  *)
(***************************************************************************)
EXTENDS Integers, Naturals, Sequences, FiniteSets, TLC

VARIABLES
  phase,   \* pseudo expansion: "idle" | "pseudo" | "run" | "done"
  mi,      \* the pseudo MachineInstr being expanded
  code,    \* the instructions BuildMI emitted in its place
  ip,      \* byte offset of the next instruction inside `code`
  exit,    \* where control left the expansion
  regs,    \* contents of the general registers (direct-page slots)
  fl       \* processor status flags N, Z, C

VARIABLES
  lphase,  \* DAG lowering: "idle" | "node" | "lowered" | "addr" | "fatal"
  node,    \* the BR_CC / SELECT_CC / SETCC node handed to LowerOperation
  out      \* the target node built in its place

VARIABLES
  ephase,  \* encoding: "idle" | "inst" | "encoded" | "object" | "linked" | "failed"
  br,      \* the branch MCInst being encoded, its address and its target
  field,   \* the 16-bit operand field of the encoded branch
  fixups,  \* fixups the code emitter recorded
  relocs   \* relocations the object writer recorded

VARIABLES
  fphase,     \* frame lowering: "idle" | "func" | "saves" | "spilled" | "restored"
              \*                 | "prologue" | "framed"
  fn,         \* the MachineFunction: its frame info and the registers it modifies
  entry,      \* machine state on entry to the function
  savedRegs,  \* SavedRegs after determineCalleeSaves
  spillCode,  \* instructions emitted by spillCalleeSavedRegisters
  restoreCode,\* instructions emitted by restoreCalleeSavedRegisters
  prologue,   \* instructions emitted by emitPrologue
  epilogue,   \* instructions emitted by emitEpilogue
  refs        \* frame-slot references resolved so far

VARIABLES
  cphase,  \* call lowering: "idle" | "site" | "lowered" | "run" | "callee" | "body" | "done"
  site,    \* the call site and the frame of the calling function
  cseq,    \* the call sequence as lowered so far
  cpc,     \* index of the next instruction of the sequence
  csp,     \* stack pointer
  cmem,    \* stack memory, byte by byte: 0 untouched, else who wrote it
  cargs    \* per stack argument offset, the address stored to and loaded from

VARIABLES
  iphase,   \* immediate fields: "idle" | "inst" | "encoded" | "object" | "failed"
  imi,      \* the MCInst being encoded: its form and its last operand
  iCB,      \* the bytes encodeInstruction appended
  iFixups,  \* the fixups encodeInstruction recorded
  iRelocs   \* the relocations recorded for unresolved fixups

VARIABLES
  sphase,  \* 64-bit shifts: "idle" | "node" | "lowered"
  snode,   \* the SHL_PARTS / SRL_PARTS / SRA_PARTS node
  sparts   \* the two merged result words

VARIABLES
  gphase,  \* register pseudos: "idle" | "pseudo" | "run" | "done"
  gmi,     \* the pseudo-instruction being expanded
  gcode,   \* the instructions it expands to
  gpc,     \* index of the next instruction
  g0,      \* the machine before the expansion runs
  gm       \* the machine

VARIABLES
  hphase,        \* C library: "idle" | "run" | "halted"
  heap_ptr,      \* sys_sbrk's break, 0 before the first call
  hblocks,       \* the blocks successful allocations returned, in order
  hfreed,        \* the addresses passed to free
  atexit_funcs,  \* the registered functions, in order
  atexit_count,  \* how many are registered
  hcalled,       \* the registered functions called, in order
  hcalls         \* library calls made so far

xvars == <<phase, mi, code, ip, exit, regs, fl>>
hvars == <<hphase, heap_ptr, hblocks, hfreed, atexit_funcs, atexit_count, hcalled, hcalls>>
gvars == <<gphase, gmi, gcode, gpc, g0, gm>>
svars == <<sphase, snode, sparts>>
ivars == <<iphase, imi, iCB, iFixups, iRelocs>>
cvars == <<cphase, site, cseq, cpc, csp, cmem, cargs>>
fvars == <<fphase, fn, entry, savedRegs, spillCode, restoreCode, prologue, epilogue, refs>>
lvars == <<lphase, node, out>>
evars == <<ephase, br, field, fixups, relocs>>

\* what each model leaves alone
nonX == <<lvars, evars, fvars, cvars, ivars, svars, gvars, hvars>>
nonL == <<xvars, evars, fvars, cvars, ivars, svars, gvars, hvars>>
nonE == <<xvars, lvars, fvars, cvars, ivars, svars, gvars, hvars>>
nonF == <<xvars, lvars, evars, cvars, ivars, svars, gvars, hvars>>
nonC == <<xvars, lvars, evars, fvars, ivars, svars, gvars, hvars>>
nonI == <<xvars, lvars, evars, fvars, cvars, svars, gvars, hvars>>
nonS == <<xvars, lvars, evars, fvars, cvars, ivars, gvars, hvars>>
nonG == <<xvars, lvars, evars, fvars, cvars, ivars, svars, hvars>>
nonH == <<xvars, lvars, evars, fvars, cvars, ivars, svars, gvars>>

NoValue == [none |-> TRUE]

XIdle ==
  /\ phase = "idle" /\ mi = NoValue /\ code = <<>> /\ ip = 0
  /\ exit = "none" /\ regs = NoValue /\ fl = NoValue

LIdle == lphase = "idle" /\ node = NoValue /\ out = NoValue

EIdle ==
  /\ ephase = "idle" /\ br = NoValue /\ field = 0
  /\ fixups = <<>> /\ relocs = <<>>

FIdle ==
  /\ fphase = "idle" /\ fn = NoValue /\ entry = NoValue /\ savedRegs = {}
  /\ spillCode = <<>> /\ restoreCode = <<>> /\ prologue = <<>>
  /\ epilogue = <<>> /\ refs = {}

CIdle ==
  /\ cphase = "idle" /\ site = NoValue /\ cseq = <<>> /\ cpc = 0
  /\ csp = 0 /\ cmem = NoValue /\ cargs = NoValue

SIdle == sphase = "idle" /\ snode = NoValue /\ sparts = NoValue

GIdle ==
  /\ gphase = "idle" /\ gmi = NoValue /\ gcode = <<>> /\ gpc = 0
  /\ g0 = NoValue /\ gm = NoValue

IIdle ==
  /\ iphase = "idle" /\ imi = NoValue /\ iCB = <<>> /\ iFixups = <<>>
  /\ iRelocs = <<>>

HIdle ==
  /\ hphase = "idle" /\ heap_ptr = 0 /\ hblocks = <<>> /\ hfreed = {}
  /\ atexit_funcs = <<>> /\ atexit_count = 0 /\ hcalled = <<>> /\ hcalls = 0

IdleButX == LIdle /\ EIdle /\ FIdle /\ CIdle /\ IIdle /\ SIdle /\ GIdle /\ HIdle
IdleButL == XIdle /\ EIdle /\ FIdle /\ CIdle /\ IIdle /\ SIdle /\ GIdle /\ HIdle
IdleButE == XIdle /\ LIdle /\ FIdle /\ CIdle /\ IIdle /\ SIdle /\ GIdle /\ HIdle
IdleButF == XIdle /\ LIdle /\ EIdle /\ CIdle /\ IIdle /\ SIdle /\ GIdle /\ HIdle
IdleButC == XIdle /\ LIdle /\ EIdle /\ FIdle /\ IIdle /\ SIdle /\ GIdle /\ HIdle
IdleButI == XIdle /\ LIdle /\ EIdle /\ FIdle /\ CIdle /\ SIdle /\ GIdle /\ HIdle
IdleButS == XIdle /\ LIdle /\ EIdle /\ FIdle /\ CIdle /\ IIdle /\ GIdle /\ HIdle
IdleButG == XIdle /\ LIdle /\ EIdle /\ FIdle /\ CIdle /\ IIdle /\ SIdle /\ HIdle
IdleButH == XIdle /\ LIdle /\ EIdle /\ FIdle /\ CIdle /\ IIdle /\ SIdle /\ GIdle

----------------------------------------------------------------------------
(* Words *)

MinInt32 == -2147483647 - 1
MaxInt32 == -(MinInt32 + 1)

\* unsigned a < b on two's-complement words
ULess(a, b) == IF (a < 0) = (b < 0) THEN a < b ELSE b < 0

\* bit 31 of (a - b) mod 2^32
DiffNegative(a, b) ==
  IF (a < 0) = (b < 0) THEN a - b < 0
  ELSE IF a >= 0 THEN a > MaxInt32 + b
  ELSE ~(a < MinInt32 + b)

----------------------------------------------------------------------------
(* Condition codes (ISD::CondCode) *)

IntCCs == {"SETEQ", "SETNE", "SETLT", "SETLE", "SETGT", "SETGE",
           "SETULT", "SETULE", "SETUGT", "SETUGE"}

OrderedCCs == {"SETOEQ", "SETONE", "SETOLT", "SETOLE", "SETOGT", "SETOGE"}

UnorderedCCs == {"SETUEQ", "SETUNE", "SETULT", "SETULE", "SETUGT", "SETUGE",
                 "SETO", "SETUO"}

FpCCs == OrderedCCs \cup UnorderedCCs

CompositeCCs == {"SETGT", "SETLE", "SETUGT", "SETULE"}

\* the relation cc between two integer words
CondHolds(cc, a, b) ==
  CASE cc = "SETEQ"  -> a = b
    [] cc = "SETNE"  -> a # b
    [] cc = "SETLT"  -> a < b
    [] cc = "SETLE"  -> a <= b
    [] cc = "SETGT"  -> a > b
    [] cc = "SETGE"  -> a >= b
    [] cc = "SETULT" -> ULess(a, b)
    [] cc = "SETULE" -> ~ULess(b, a)
    [] cc = "SETUGT" -> ULess(b, a)
    [] cc = "SETUGE" -> ~ULess(a, b)

\* the relation cc on a floating-point compare whose outcome is
\* "lt", "eq", "gt" or "un" (unordered)
FpCondHolds(cc, o) ==
  CASE cc = "SETOEQ" -> o = "eq"
    [] cc = "SETONE" -> o \in {"lt", "gt"}
    [] cc = "SETOLT" -> o = "lt"
    [] cc = "SETOLE" -> o \in {"lt", "eq"}
    [] cc = "SETOGT" -> o = "gt"
    [] cc = "SETOGE" -> o \in {"gt", "eq"}
    [] cc = "SETUEQ" -> o \in {"eq", "un"}
    [] cc = "SETUNE" -> o # "eq"
    [] cc = "SETULT" -> o \in {"lt", "un"}
    [] cc = "SETULE" -> o # "gt"
    [] cc = "SETUGT" -> o \in {"gt", "un"}
    [] cc = "SETUGE" -> o # "lt"
    [] cc = "SETO"   -> o # "un"
    [] cc = "SETUO"  -> o = "un"

----------------------------------------------------------------------------
(* Machine instructions *)

Instr(op, d, s, imm, tgt) == [op |-> op, d |-> d, s |-> s, imm |-> imm, tgt |-> tgt]

CMPR_DP(l, r)   == Instr("CMPR_DP", l, r, 0, "none")
CMPR_IMM(l, i)  == Instr("CMPR_IMM", l, 0, i, "none")
MOVR_DP(d, s)   == Instr("MOVR_DP", d, s, 0, "none")
BrMBB(op, mbb)  == Instr(op, 0, 0, 0, mbb)
BrImm(op, n)    == Instr(op, 0, 0, n, "imm")

CondBranchOps == {"BEQ", "BNE", "BMI", "BPL", "BCS", "BCC"}
BranchOps     == CondBranchOps \cup {"BRA"}
CompareOps    == {"CMPR_DP", "CMPR_IMM"}

\* encoded length in bytes
InstrSize(i) ==
  CASE i.op \in {"CMPR_DP", "MOVR_DP"} -> 5
    [] i.op = "CMPR_IMM"               -> 8
    [] i.op \in BranchOps              -> 3

RECURSIVE CodeSize(_)
CodeSize(c) == IF c = <<>> THEN 0 ELSE InstrSize(Head(c)) + CodeSize(Tail(c))

\* byte offset at which instruction k of c starts
StartOf(c, k) == CodeSize(SubSeq(c, 1, k - 1))

\* index of the instruction that starts at byte offset a, 0 if none does
IndexAt(c, a) ==
  IF \E k \in 1 .. Len(c) : StartOf(c, k) = a
  THEN CHOOSE k \in 1 .. Len(c) : StartOf(c, k) = a
  ELSE 0

\* flags after CMP a, b
CmpFlags(a, b) == [z |-> a = b, c |-> ~ULess(a, b), n |-> DiffNegative(a, b)]

\* flags after a register move of value v: N and Z follow the value
MovFlags(f, v) == [z |-> v = 0, c |-> f.c, n |-> v < 0]

BranchTaken(op, f) ==
  CASE op = "BEQ" -> f.z
    [] op = "BNE" -> ~f.z
    [] op = "BMI" -> f.n
    [] op = "BPL" -> ~f.n
    [] op = "BCS" -> f.c
    [] op = "BCC" -> ~f.c
    [] op = "BRA" -> TRUE

----------------------------------------------------------------------------
(* expandPostRAPseudo: compare-and-branch and select pseudos *)

\* the branch sequence chosen by the switch on CC; hasNext is
\* MBB.getNextNode() != nullptr
EmitCondBranch(cc, hasNext) ==
  CASE cc = "SETEQ"  -> <<BrMBB("BEQ", "Target")>>
    [] cc = "SETNE"  -> <<BrMBB("BNE", "Target")>>
    [] cc = "SETLT"  -> <<BrMBB("BMI", "Target")>>
    [] cc = "SETGE"  -> <<BrMBB("BPL", "Target")>>
    [] cc = "SETGT"  ->
         IF hasNext
         THEN <<BrMBB("BEQ", "NextMBB"), BrMBB("BMI", "NextMBB"), BrMBB("BRA", "Target")>>
         ELSE <<BrMBB("BPL", "Target")>>
    [] cc = "SETLE"  ->
         IF hasNext
         THEN <<BrMBB("BEQ", "Target"), BrMBB("BMI", "Target")>>
         ELSE <<BrMBB("BMI", "Target")>>
    [] cc = "SETULT" -> <<BrMBB("BCC", "Target")>>
    [] cc = "SETUGE" -> <<BrMBB("BCS", "Target")>>
    [] cc = "SETUGT" ->
         IF hasNext
         THEN <<BrMBB("BEQ", "NextMBB"), BrMBB("BCS", "Target")>>
         ELSE <<BrMBB("BCS", "Target")>>
    [] cc = "SETULE" ->
         IF hasNext
         THEN <<BrMBB("BEQ", "Target"), BrMBB("BCC", "Target")>>
         ELSE <<BrMBB("BCC", "Target")>>
    [] OTHER         -> <<BrMBB("BNE", "Target")>>

ExpandBrCCCmp(m) == <<CMPR_DP(m.lhs, m.rhs)>> \o EmitCondBranch(m.cc, m.hasNext)

ExpandBrCCCmpImm(m) == <<CMPR_IMM(m.lhs, m.imm)>> \o EmitCondBranch(m.cc, m.hasNext)

ExpandCmpBrCC(m) == <<CMPR_DP(m.lhs, m.rhs)>> \o EmitCondBranch(m.cc, m.hasNext)

InvertCC(cc) ==
  CASE cc = "SETEQ"  -> "SETNE"
    [] cc = "SETNE"  -> "SETEQ"
    [] cc = "SETLT"  -> "SETGE"
    [] cc = "SETGE"  -> "SETLT"
    [] cc = "SETGT"  -> "SETLE"
    [] cc = "SETLE"  -> "SETGT"
    [] cc = "SETULT" -> "SETUGE"
    [] cc = "SETUGE" -> "SETULT"
    [] cc = "SETUGT" -> "SETULE"
    [] cc = "SETULE" -> "SETUGT"
    [] cc = "SETOEQ" -> "SETONE"
    [] cc = "SETONE" -> "SETOEQ"
    [] cc = "SETOLT" -> "SETOGE"
    [] cc = "SETOGE" -> "SETOLT"
    [] cc = "SETOGT" -> "SETOLE"
    [] cc = "SETOLE" -> "SETOGT"
    [] cc = "SETUNE" -> "SETOEQ"
    [] OTHER         -> cc

\* the same branches with the displacement of the middle branch of the
\* less-or-equal sequences counted from the end of that branch
SkipBranchesFromEnd(ecc) ==
  CASE ecc \in {"SETEQ", "SETOEQ"}           -> <<BrImm("BNE", 8)>>
    [] ecc \in {"SETNE", "SETONE", "SETUNE"} -> <<BrImm("BEQ", 8)>>
    [] ecc \in {"SETLT", "SETOLT"}           -> <<BrImm("BPL", 8)>>
    [] ecc \in {"SETGE", "SETOGE"}           -> <<BrImm("BMI", 8)>>
    [] ecc \in {"SETGT", "SETOGT"}           -> <<BrImm("BEQ", 11), BrImm("BMI", 8)>>
    [] ecc \in {"SETLE", "SETOLE"}           ->
         <<BrImm("BEQ", 9), BrImm("BMI", 3), BrImm("BRA", 8)>>
    [] ecc = "SETULT"                        -> <<BrImm("BCS", 8)>>
    [] ecc = "SETUGE"                        -> <<BrImm("BCC", 8)>>
    [] ecc = "SETUGT"                        -> <<BrImm("BEQ", 11), BrImm("BCC", 8)>>
    [] ecc = "SETULE"                        ->
         <<BrImm("BEQ", 9), BrImm("BCC", 3), BrImm("BRA", 8)>>
    [] OTHER                                 -> <<BrImm("BEQ", 8)>>

\* the branches that skip the second copy when EffectiveCC is false;
\* immediates are displacements from the start of the branch itself
SkipBranches(ecc) ==
  CASE ecc \in {"SETEQ", "SETOEQ"}           -> <<BrImm("BNE", 8)>>
    [] ecc \in {"SETNE", "SETONE", "SETUNE"} -> <<BrImm("BEQ", 8)>>
    [] ecc \in {"SETLT", "SETOLT"}           -> <<BrImm("BPL", 8)>>
    [] ecc \in {"SETGE", "SETOGE"}           -> <<BrImm("BMI", 8)>>
    [] ecc \in {"SETGT", "SETOGT"}           -> <<BrImm("BEQ", 11), BrImm("BMI", 8)>>
    [] ecc \in {"SETLE", "SETOLE"}           ->
         <<BrImm("BEQ", 9), BrImm("BMI", 6), BrImm("BRA", 8)>>
    [] ecc = "SETULT"                        -> <<BrImm("BCS", 8)>>
    [] ecc = "SETUGE"                        -> <<BrImm("BCC", 8)>>
    [] ecc = "SETUGT"                        -> <<BrImm("BEQ", 11), BrImm("BCC", 8)>>
    [] ecc = "SETULE"                        ->
         <<BrImm("BEQ", 9), BrImm("BCC", 6), BrImm("BRA", 8)>>
    [] OTHER                                 -> <<BrImm("BEQ", 8)>>

\* the copy/branch/copy sequence shared by both select pseudos
SelectCopies(DstReg, TrueReg, FalseReg, CC) ==
  LET InvertLogic   == TrueReg = DstReg /\ TrueReg # FalseReg
      FirstCopyReg  == IF InvertLogic THEN TrueReg ELSE FalseReg
      SecondCopyReg == IF InvertLogic THEN FalseReg ELSE TrueReg
      EffectiveCC   == IF InvertLogic THEN InvertCC(CC) ELSE CC
  IN  IF TrueReg = DstReg /\ FalseReg = DstReg THEN <<>>
      ELSE (IF FirstCopyReg # DstReg THEN <<MOVR_DP(DstReg, FirstCopyReg)>> ELSE <<>>)
           \o SkipBranches(EffectiveCC)
           \o <<MOVR_DP(DstReg, SecondCopyReg)>>

ExpandSelectCC(m) ==
  <<CMPR_DP(m.lhs, m.rhs)>> \o SelectCopies(m.dst, m.t, m.f, m.cc)

ExpandSelectCCFP(m) == SelectCopies(m.dst, m.t, m.f, m.cc)

BranchPseudos == {"BR_CC_CMP_PSEUDO", "BR_CC_CMP_IMM_PSEUDO", "CMP_BR_CC"}

expandPostRAPseudo(m) ==
  CASE m.opc = "BR_CC_CMP_PSEUDO"     -> ExpandBrCCCmp(m)
    [] m.opc = "BR_CC_CMP_IMM_PSEUDO" -> ExpandBrCCCmpImm(m)
    [] m.opc = "CMP_BR_CC"            -> ExpandCmpBrCC(m)
    [] m.opc = "SELECT_CC_PSEUDO"     -> ExpandSelectCC(m)
    [] m.opc = "SELECT_CC_FP_PSEUDO"  -> ExpandSelectCCFP(m)

----------------------------------------------------------------------------
(* Inputs of the expansion model *)

MaxReg == 3
Regs == 0 .. MaxReg

\* register contents before the pseudo: 0, 1, INT_MIN, -1, then large positives
RegInit(r) ==
  CASE r = 0 -> 0
    [] r = 1 -> 1
    [] r = 2 -> MinInt32
    [] r = 3 -> -1
    [] OTHER -> MaxInt32 - (r - 4)

ImmVals == {0, 1, MinInt32, -1}

FcmpOutcomes == {"lt", "eq", "gt", "un"}

AllFlags == [n : BOOLEAN, z : BOOLEAN, c : BOOLEAN]

ClearFlags == [n |-> FALSE, z |-> FALSE, c |-> FALSE]

\* flags left by FCMP: Z on equal, N on less; C is not used by the ordered
\* tests, and nothing is promised for unordered operands
FcmpFlags(o) ==
  IF o = "un" THEN AllFlags
  ELSE {f \in AllFlags : f.z = (o = "eq") /\ f.n = (o = "lt")}

Pseudo(opc, dst, lhs, rhs, imm, t, f, cc, hasNext, follow, fcmp) ==
  [opc |-> opc, dst |-> dst, lhs |-> lhs, rhs |-> rhs, imm |-> imm,
   t |-> t, f |-> f, cc |-> cc, hasNext |-> hasNext, follow |-> follow,
   fcmp |-> fcmp]

\* a block either has a next block or not; what follows the pseudo is
\* either the next block or a further terminator of the same block
BranchContexts == {<<FALSE, "inblock">>, <<TRUE, "inblock">>, <<TRUE, "nextblock">>}

BranchPseudoInstrs ==
  {Pseudo(opc, 0, l, r, 0, 0, 0, cc, ctx[1], ctx[2], "none") :
     opc \in {"BR_CC_CMP_PSEUDO", "CMP_BR_CC"}, l \in Regs, r \in Regs,
     cc \in IntCCs, ctx \in BranchContexts}
  \cup
  {Pseudo("BR_CC_CMP_IMM_PSEUDO", 0, l, 0, i, 0, 0, cc, ctx[1], ctx[2], "none") :
     l \in Regs, i \in ImmVals, cc \in IntCCs, ctx \in BranchContexts}

SelectPseudoInstrs ==
  {Pseudo("SELECT_CC_PSEUDO", d, l, r, 0, t, f, cc, FALSE, "inblock", "none") :
     d \in Regs, l \in Regs, r \in Regs, t \in Regs, f \in Regs, cc \in IntCCs}
  \cup
  {Pseudo("SELECT_CC_FP_PSEUDO", d, 0, 0, 0, t, f, cc, FALSE, "inblock", o) :
     d \in Regs, t \in Regs, f \in Regs, cc \in FpCCs, o \in FcmpOutcomes}

PseudoInstrs == BranchPseudoInstrs \cup SelectPseudoInstrs

\* the condition codes the DAG lowering passes on with an integer compare
\* (its canonical six) and with a floating-point compare (all of them)
HandedIntCCs == {"SETEQ", "SETNE", "SETLT", "SETGE", "SETULT", "SETUGE"}

\* the selects EmitInstrWithCustomInserter expands, their flags set by a
\* compare emitted before them: SELECT after an integer compare of lhs
\* and rhs, SELECT_CC_FP_F32_PSEUDO after FCMP
InsertedPseudos == {"SELECT", "SELECT_CC_FP_F32_PSEUDO"}

InsertedPseudoInstrs ==
  {Pseudo("SELECT", 0, l, r, 0, 1, 2, cc, TRUE, "nextblock", "none") :
     l \in Regs, r \in Regs, cc \in HandedIntCCs}
  \cup
  {Pseudo("SELECT_CC_FP_F32_PSEUDO", 0, 0, 0, 0, 1, 2, cc, TRUE, "nextblock", o) :
     cc \in FpCCs, o \in FcmpOutcomes}

\* the switch (CC) of emitSelect and of emitSelectCCFP
SelectBrOpc(CC) ==
  CASE CC = "SETEQ"  -> "BEQ"
    [] CC = "SETNE"  -> "BNE"
    [] CC = "SETLT"  -> "BMI"
    [] CC = "SETGE"  -> "BPL"
    [] CC = "SETULT" -> "BCC"
    [] CC = "SETUGE" -> "BCS"
    [] CC = "SETGT"  -> "BNE"
    [] CC = "SETLE"  -> "BEQ"
    [] CC = "SETUGT" -> "BNE"
    [] CC = "SETULE" -> "BEQ"
    [] OTHER         -> "BNE"

\* Bcc TrueMBB; BRA SinkMBB
emitSelect(m) == <<BrMBB(SelectBrOpc(m.cc), "TrueMBB"), BrMBB("BRA", "SinkMBB")>>

emitSelectCCFP(m) == <<BrMBB(SelectBrOpc(m.cc), "TrueMBB"), BrMBB("BRA", "SinkMBB")>>

----------------------------------------------------------------------------
(* The expansion model: expand one pseudo, then run the emitted code *)

XInit ==
  /\ phase = "pseudo"
  /\ mi \in PseudoInstrs \cup InsertedPseudoInstrs
  /\ code = <<>>
  /\ ip = 0
  /\ exit = "none"
  /\ regs = [r \in Regs |-> RegInit(r)]
  /\ fl \in (CASE mi.opc \in {"SELECT_CC_FP_PSEUDO", "SELECT_CC_FP_F32_PSEUDO"} ->
                    FcmpFlags(mi.fcmp)
                [] mi.opc = "SELECT" -> {CmpFlags(RegInit(mi.lhs), RegInit(mi.rhs))}
                [] OTHER -> {ClearFlags})
  /\ IdleButX

Cur == code[IndexAt(code, ip)]

AtInstr == phase = "run" /\ IndexAt(code, ip) # 0

ExpandPseudo ==
  /\ phase = "pseudo"
  /\ mi.opc \notin InsertedPseudos
  /\ phase' = "run"
  /\ code' = expandPostRAPseudo(mi)
  /\ UNCHANGED <<mi, ip, exit, regs, fl>>
  /\ UNCHANGED nonX

EmitInstrWithCustomInserter ==
  /\ phase = "pseudo"
  /\ mi.opc \in InsertedPseudos
  /\ phase' = "run"
  /\ code' = IF mi.opc = "SELECT" THEN emitSelect(mi) ELSE emitSelectCCFP(mi)
  /\ UNCHANGED <<mi, ip, exit, regs, fl>>
  /\ UNCHANGED nonX

ExecCompare ==
  /\ AtInstr
  /\ Cur.op \in CompareOps
  /\ fl' = CmpFlags(regs[Cur.d], IF Cur.op = "CMPR_DP" THEN regs[Cur.s] ELSE Cur.imm)
  /\ ip' = ip + InstrSize(Cur)
  /\ UNCHANGED <<phase, mi, code, exit, regs>>
  /\ UNCHANGED nonX

ExecMove ==
  /\ AtInstr
  /\ Cur.op = "MOVR_DP"
  /\ regs' = [regs EXCEPT ![Cur.d] = regs[Cur.s]]
  /\ fl' = MovFlags(fl, regs[Cur.s])
  /\ ip' = ip + InstrSize(Cur)
  /\ UNCHANGED <<phase, mi, code, exit>>
  /\ UNCHANGED nonX

ExecBranch ==
  /\ AtInstr
  /\ Cur.op \in BranchOps
  /\ IF ~BranchTaken(Cur.op, fl)
     THEN ip' = ip + InstrSize(Cur) /\ UNCHANGED <<phase, exit>>
     ELSE IF Cur.tgt = "imm"
     THEN ip' = ip + Cur.imm /\ UNCHANGED <<phase, exit>>
     ELSE /\ phase' = "done"
          /\ exit' = (IF Cur.tgt \in {"Target", "TrueMBB"} THEN "target" ELSE "next")
          /\ UNCHANGED ip
  /\ UNCHANGED <<mi, code, regs, fl>>
  /\ UNCHANGED nonX

\* control runs off the emitted code, onto whatever follows the pseudo
Leave ==
  /\ phase = "run"
  /\ IndexAt(code, ip) = 0
  /\ phase' = "done"
  /\ exit' = (IF ip = CodeSize(code) THEN "follow" ELSE "bad")
  /\ UNCHANGED <<mi, code, ip, regs, fl>>
  /\ UNCHANGED nonX

XNext ==
  \/ ExpandPseudo \/ EmitInstrWithCustomInserter
  \/ ExecCompare \/ ExecMove \/ ExecBranch \/ Leave

vars == <<xvars, lvars, evars, fvars, cvars, ivars, svars, gvars, hvars>>

ExpandSpec == XInit /\ [][XNext]_vars

----------------------------------------------------------------------------
(* Properties of the expansion model *)

IntPseudos == BranchPseudos \cup {"SELECT_CC_PSEUDO"}

SelectPseudos == {"SELECT_CC_PSEUDO", "SELECT_CC_FP_PSEUDO"}

\* right-hand value the pseudo compares against
RhsValue(m) == IF m.opc = "BR_CC_CMP_IMM_PSEUDO" THEN m.imm ELSE RegInit(m.rhs)

\* whether the pseudo's condition holds on the values it was given
PseudoCond(m) ==
  IF m.opc = "SELECT_CC_FP_PSEUDO" THEN FpCondHolds(m.cc, m.fcmp)
  ELSE CondHolds(m.cc, RegInit(m.lhs), RhsValue(m))

\* C1: in the code emitted for BR_CC_CMP_PSEUDO, BR_CC_CMP_IMM_PSEUDO,
\* CMP_BR_CC and SELECT_CC_PSEUDO, every instruction that lies between the
\* compare and a conditional branch on its flags is itself a branch: no
\* register move and no flag-writing instruction separates them.
C1_NoClobberBetweenCompareAndBranch ==
  (phase # "pseudo" /\ mi.opc \in IntPseudos) =>
    \A i \in 1 .. Len(code) : \A j \in 1 .. Len(code) :
      (i < j /\ code[i].op \in CompareOps /\ code[j].op \in CondBranchOps) =>
        \A k \in (i + 1) .. (j - 1) : code[k].op \in BranchOps

\* C2: once the code emitted for SELECT_CC_PSEUDO or SELECT_CC_FP_PSEUDO has
\* run, the destination register holds the value trueVal had before the
\* pseudo if the condition holds and the value falseVal had otherwise,
\* whichever of the operands share a register.
C2_SelectPicksOperand ==
  (phase = "done" /\ mi.opc \in SelectPseudos) =>
    regs[mi.dst] = (IF PseudoCond(mi) THEN RegInit(mi.t) ELSE RegInit(mi.f))

\* C4: for the relations GT, LE, UGT and ULE the code emitted for a
\* compare-and-branch pseudo leaves for the branch target exactly when the
\* relation holds between the operands, and otherwise continues at whatever
\* follows the pseudo, both with and without a following block.
C4_CompositeBranchExact ==
  (phase = "done" /\ mi.opc \in BranchPseudos /\ mi.cc \in CompositeCCs) =>
    IF PseudoCond(mi) THEN exit = "target"
    ELSE \/ exit = "follow"
         \/ exit = "next" /\ mi.follow = "nextblock"

----------------------------------------------------------------------------
(* DAG lowering of BR_CC, SELECT_CC and SETCC *)

NativeCCs == {"SETEQ", "SETNE", "SETLT", "SETGE", "SETULT", "SETUGE"}

IntVTs == {"i32"}
FpVTs  == {"f32", "f64"}

IntVals == {0, 1, MinInt32, -1}

\* floating-point operands: -1.0, 0.0, 1.0 in this order, then a NaN
FpVals == 0 .. 3

IsNaN(v) == v = 3

\* outcome of FCMP a, b
FcmpOutcome(a, b) ==
  IF IsNaN(a) \/ IsNaN(b) THEN "un"
  ELSE IF a < b THEN "lt"
  ELSE IF a = b THEN "eq"
  ELSE "gt"

\* the relation cc between two operands of type vt
Relation(cc, vt, a, b) ==
  IF vt \in FpVTs THEN FpCondHolds(cc, FcmpOutcome(a, b)) ELSE CondHolds(cc, a, b)

\* SETGT/SETLE/SETUGT/SETULE without exchanging the operands
CanonicalizeKeepOrder(CC, LHS, RHS) ==
  CASE CC = "SETGT"  -> [cc |-> "SETLT",  lhs |-> LHS, rhs |-> RHS]
    [] CC = "SETLE"  -> [cc |-> "SETGE",  lhs |-> LHS, rhs |-> RHS]
    [] CC = "SETUGT" -> [cc |-> "SETULT", lhs |-> LHS, rhs |-> RHS]
    [] CC = "SETULE" -> [cc |-> "SETUGE", lhs |-> LHS, rhs |-> RHS]
    [] OTHER         -> [cc |-> CC, lhs |-> LHS, rhs |-> RHS]

\* the switch (CC) with std::swap(LHS, RHS)
Canonicalize(CC, LHS, RHS) ==
  CASE CC = "SETGT"  -> [cc |-> "SETLT",  lhs |-> RHS, rhs |-> LHS]
    [] CC = "SETLE"  -> [cc |-> "SETGE",  lhs |-> RHS, rhs |-> LHS]
    [] CC = "SETUGT" -> [cc |-> "SETULT", lhs |-> RHS, rhs |-> LHS]
    [] CC = "SETULE" -> [cc |-> "SETUGE", lhs |-> RHS, rhs |-> LHS]
    [] OTHER         -> [cc |-> CC, lhs |-> LHS, rhs |-> RHS]

TargetNode(opc, cc, lhs, rhs, tv, fv) ==
  [opc |-> opc, cc |-> cc, lhs |-> lhs, rhs |-> rhs, tv |-> tv, fv |-> fv]

LowerBR_CCNode(n) ==
  IF n.vt \in FpVTs
  THEN TargetNode("BR_CC", n.cc, n.lhs, n.rhs, "Dest", "none")
  ELSE LET c == Canonicalize(n.cc, n.lhs, n.rhs)
       IN  TargetNode("BR_CC_CMP", c.cc, c.lhs, c.rhs, "Dest", "none")

LowerSELECT_CCNode(n) ==
  IF n.vt \in FpVTs
  THEN TargetNode("SELECT_CC_FP", n.cc, n.lhs, n.rhs, "TrueVal", "FalseVal")
  ELSE LET c == Canonicalize(n.cc, n.lhs, n.rhs)
       IN  TargetNode(IF n.resfp THEN "SELECT_CC_MIXED" ELSE "SELECT_CC",
                      c.cc, c.lhs, c.rhs, "TrueVal", "FalseVal")

LowerSETCCNode(n) ==
  IF n.vt \in FpVTs
  THEN TargetNode("SELECT_CC_FP", n.cc, n.lhs, n.rhs, "One", "Zero")
  ELSE LET c == Canonicalize(n.cc, n.lhs, n.rhs)
       IN  TargetNode("SELECT_CC", c.cc, c.lhs, c.rhs, "One", "Zero")

DagNode(op, cc, vt, lhs, rhs, resfp) ==
  [op |-> op, cc |-> cc, vt |-> vt, lhs |-> lhs, rhs |-> rhs, resfp |-> resfp]

\* SETCC and BR_CC have no floating-point result
ResultKinds(op) == IF op = "SELECT_CC" THEN BOOLEAN ELSE {FALSE}

DagOps == {"BR_CC", "SELECT_CC", "SETCC"}

DagNodes ==
  {DagNode(op, cc, "i32", a, b, rf) :
     op \in DagOps, cc \in IntCCs, a \in IntVals, b \in IntVals, rf \in BOOLEAN}
  \cup
  {DagNode(op, cc, vt, a, b, FALSE) :
     op \in DagOps, cc \in FpCCs, vt \in FpVTs, a \in FpVals, b \in FpVals}

\* the walk depth operand, an unsigned 32-bit constant
Depths == {0, 1, 2, MaxInt32, MinInt32, -1}

AddrNodes ==
  {DagNode(op, "SETEQ", "i32", d, 0, FALSE) : op \in {"FRAMEADDR", "RETURNADDR"}, d \in Depths}

\* what a lowering hands back, or the message of report_fatal_error
Lowered(value, taken) == [fatal |-> FALSE, value |-> value, msg |-> "", taken |-> taken]

Fatal(msg, taken) == [fatal |-> TRUE, value |-> "none", msg |-> msg, taken |-> taken]

\* a frame-address lowering that answers R29 at every depth
LowerFRAMEADDRAnyDepth(Op) == Lowered("CopyFromReg R29", "FrameAddressIsTaken")

LowerFRAMEADDR(Op) ==
  IF ULess(0, Op.lhs)
  THEN Fatal("Non-zero frame depth not supported", "FrameAddressIsTaken")
  ELSE Lowered("CopyFromReg R29", "FrameAddressIsTaken")

LowerRETURNADDR(Op) ==
  IF ULess(0, Op.lhs)
  THEN Fatal("Non-zero return address depth not supported", "ReturnAddressIsTaken")
  ELSE Lowered("UNDEF", "ReturnAddressIsTaken")

LInit ==
  /\ lphase = "node"
  /\ node \in {n \in DagNodes : n.resfp \in ResultKinds(n.op)} \cup AddrNodes
  /\ out = NoValue
  /\ IdleButL

LowerBR_CC ==
  /\ lphase = "node" /\ node.op = "BR_CC"
  /\ out' = LowerBR_CCNode(node)
  /\ lphase' = "lowered"
  /\ UNCHANGED node
  /\ UNCHANGED nonL

LowerSELECT_CC ==
  /\ lphase = "node" /\ node.op = "SELECT_CC"
  /\ out' = LowerSELECT_CCNode(node)
  /\ lphase' = "lowered"
  /\ UNCHANGED node
  /\ UNCHANGED nonL

LowerSETCC ==
  /\ lphase = "node" /\ node.op = "SETCC"
  /\ out' = LowerSETCCNode(node)
  /\ lphase' = "lowered"
  /\ UNCHANGED node
  /\ UNCHANGED nonL

LowerFrameAddr ==
  /\ lphase = "node" /\ node.op = "FRAMEADDR"
  /\ out' = LowerFRAMEADDR(node)
  /\ lphase' = IF LowerFRAMEADDR(node).fatal THEN "fatal" ELSE "addr"
  /\ UNCHANGED node
  /\ UNCHANGED nonL

LowerReturnAddr ==
  /\ lphase = "node" /\ node.op = "RETURNADDR"
  /\ out' = LowerRETURNADDR(node)
  /\ lphase' = IF LowerRETURNADDR(node).fatal THEN "fatal" ELSE "addr"
  /\ UNCHANGED node
  /\ UNCHANGED nonL

LNext ==
  \/ LowerBR_CC \/ LowerSELECT_CC \/ LowerSETCC
  \/ LowerFrameAddr \/ LowerReturnAddr

LowerSpec == LInit /\ [][LNext]_vars

\* the triple passed on is native and equivalent to the node's relation
PassedOnSound ==
  /\ out.cc \in NativeCCs
  /\ Relation(out.cc, node.vt, out.lhs, out.rhs)
       = Relation(node.cc, node.vt, node.lhs, node.rhs)

\* C3 (as stated): for every comparison relation and all operands, integer or
\* floating-point, the relation and operands passed on by LowerBR_CC,
\* LowerSELECT_CC and LowerSETCC use only a native relation and are true
\* exactly when the original relation is.
C3_AllRelationsCanonical == lphase = "lowered" => PassedOnSound

\* C3 (amended): for each of the ten integer relations on integer operands,
\* the relation and operands passed on use only EQ, NE, LT, GE, ULT or UGE
\* and are true exactly when the original relation is; floating-point
\* compares are passed on with their relation unchanged.
C3_IntegerRelationsCanonical ==
  lphase = "lowered" =>
    IF node.vt \in IntVTs THEN PassedOnSound
    ELSE out.cc = node.cc /\ out.lhs = node.lhs /\ out.rhs = node.rhs

\* a signed greater-than on different integers was turned into less-than
\* with the operands exchanged
C3_Witness ==
  /\ lphase = "lowered"
  /\ node.vt = "i32" /\ node.cc = "SETGT" /\ node.lhs # node.rhs
  /\ out.cc = "SETLT" /\ out.lhs = node.rhs /\ out.rhs = node.lhs

----------------------------------------------------------------------------
(* Branch encoding: code emitter, object writer, linker *)

Trunc(v, bits) == ((v % (2 ^ bits)) + 2 ^ bits) % (2 ^ bits)

SignExt16(u) == IF u >= 32768 THEN u - 65536 ELSE u

FixupKinds == {"FK_Data_1", "FK_Data_2", "FK_Data_4",
               "fixup_m65832_8", "fixup_m65832_16", "fixup_m65832_24",
               "fixup_m65832_32", "fixup_m65832_pcrel_8", "fixup_m65832_pcrel_16"}

RelocTypes == {"R_M65832_8", "R_M65832_16", "R_M65832_24", "R_M65832_32",
               "R_M65832_PCREL_8", "R_M65832_PCREL_16"}

\* llvm_unreachable: the build aborts or carries on with any value
Unreachable == RelocTypes \cup {"abort"}

\* the set of results getRelocType can produce
getRelocType(Kind, IsPCRel) ==
  IF IsPCRel
  THEN CASE Kind \in {"FK_Data_1", "fixup_m65832_pcrel_8"}  -> {"R_M65832_PCREL_8"}
         [] Kind \in {"FK_Data_2", "fixup_m65832_pcrel_16"} -> {"R_M65832_PCREL_16"}
         [] OTHER                                           -> Unreachable
  ELSE CASE Kind \in {"FK_Data_1", "fixup_m65832_8"}  -> {"R_M65832_8"}
         [] Kind \in {"FK_Data_2", "fixup_m65832_16"} -> {"R_M65832_16"}
         [] Kind = "fixup_m65832_24"                  -> {"R_M65832_24"}
         [] Kind \in {"FK_Data_4", "fixup_m65832_32"} -> {"R_M65832_32"}
         [] OTHER                                     -> Unreachable

\* emitImm16 on a branch operand: the field written and the fixups recorded
emitImm16(MO, Offset, IsPCRel) ==
  IF MO.isImm
  THEN [field  |-> Trunc(IF IsPCRel THEN MO.imm - 3 ELSE MO.imm, 16),
        fixups |-> <<>>]
  ELSE IF ~IsPCRel /\ MO.isConst
  THEN [field  |-> Trunc(MO.imm, 16), fixups |-> <<>>]
  ELSE [field  |-> 0,
        fixups |-> <<[offset |-> Offset,
                      kind   |-> IF IsPCRel THEN "fixup_m65832_pcrel_16" ELSE "FK_Data_2",
                      sym    |-> MO.sym,
                      addend |-> IF IsPCRel THEN -2 ELSE 0,
                      pcrel  |-> FALSE]>>]

getRelExpr(type) ==
  IF type \in {"R_M65832_PCREL_8", "R_M65832_PCREL_16"} THEN "R_PC" ELSE "R_ABS"

RelocBits(type) ==
  CASE type \in {"R_M65832_8", "R_M65832_PCREL_8"}   -> 8
    [] type \in {"R_M65832_16", "R_M65832_PCREL_16"} -> 16
    [] type = "R_M65832_24"                          -> 24
    [] type = "R_M65832_32"                          -> 32

\* the value the linker hands to relocate: S + A - P or S + A
RelocValue(r) ==
  IF getRelExpr(r.type) = "R_PC" THEN r.sym + r.addend - r.place
  ELSE r.sym + r.addend

\* checkInt / checkIntUInt
InRange(r, val) ==
  LET lo == -(2 ^ (RelocBits(r.type) - 1))
      hi == IF getRelExpr(r.type) = "R_PC"
            THEN 2 ^ (RelocBits(r.type) - 1) - 1
            ELSE IF RelocBits(r.type) = 32 THEN MaxInt32
            ELSE 2 ^ RelocBits(r.type) - 1
  IN  RelocBits(r.type) = 32 \/ (lo <= val /\ val <= hi)

\* the two bytes of the branch's operand field after relocate wrote val
relocate(old, r, val) ==
  IF RelocBits(r.type) = 8
  THEN (old - (old % 256)) + Trunc(val, 8)
  ELSE Trunc(val, 16)

BranchAddrs == {512, 4096}

BranchDists == {-300, -128, -3, 0, 3, 8, 11, 127, 300}

Branches == [I : BranchAddrs, N : BranchDists, isImm : BOOLEAN]

\* the operand the MCInst carries: "*+N" or the target symbol's address
BranchOperand(b) ==
  [isImm |-> b.isImm, isConst |-> FALSE, imm |-> b.N, sym |-> b.I + b.N]

EInit ==
  /\ ephase = "inst"
  /\ br \in Branches
  /\ field = 0
  /\ fixups = <<>>
  /\ relocs = <<>>
  /\ IdleButE

\* encodeInstruction, size 3, branch opcode: opcode byte then emitImm16(MO, 1, true)
EncodeInstruction ==
  /\ ephase = "inst"
  /\ LET e == emitImm16(BranchOperand(br), 1, TRUE)
     IN  field' = e.field /\ fixups' = e.fixups
  /\ ephase' = "encoded"
  /\ UNCHANGED <<br, relocs>>
  /\ UNCHANGED nonE

\* applyFixup: a fixup against a symbol is not resolved (it is not marked
\* PC-relative), so a relocation of the type getRelocType names is recorded
ApplyFixup ==
  /\ ephase = "encoded"
  /\ IF fixups = <<>>
     THEN ephase' = "object" /\ UNCHANGED relocs
     ELSE \E ty \in getRelocType(fixups[1].kind, fixups[1].pcrel) :
            IF ty = "abort"
            THEN ephase' = "failed" /\ UNCHANGED relocs
            ELSE /\ ephase' = "object"
                 /\ relocs' = <<[type   |-> ty,
                                 place  |-> br.I + fixups[1].offset,
                                 sym    |-> fixups[1].sym,
                                 addend |-> fixups[1].addend]>>
  /\ UNCHANGED <<br, field, fixups>>
  /\ UNCHANGED nonE

\* the linker applies the relocations of the object
Relocate ==
  /\ ephase = "object"
  /\ IF relocs = <<>>
     THEN ephase' = "linked" /\ UNCHANGED field
     ELSE LET val == RelocValue(relocs[1])
          IN  IF InRange(relocs[1], val)
              THEN ephase' = "linked" /\ field' = relocate(field, relocs[1], val)
              ELSE ephase' = "failed" /\ UNCHANGED field
  /\ UNCHANGED <<br, fixups, relocs>>
  /\ UNCHANGED nonE

ENext == EncodeInstruction \/ ApplyFixup \/ Relocate

EncodeSpec == EInit /\ [][ENext]_vars

\* the address the processor branches to: end of the instruction plus the
\* sign-extended stored offset
BranchLanding == br.I + 3 + SignExt16(field)

\* C5: for a branch at address I with target I + N, the offset finally
\* stored in the instruction satisfies address_after_instruction + offset
\* = I + N, for an immediate target and for a symbol resolved through a
\* fixup and a relocation.
C5_StoredOffsetReachesTarget ==
  ephase = "linked" => BranchLanding = br.I + br.N

----------------------------------------------------------------------------
(* Frame lowering *)

FramePointer == 29

getDPOffset(RegNum) == RegNum * 4

\* registers of the callee-saved list that a function may modify
CalleeSavedRegs == {16, 17, FramePointer}

hasFP(f) == f.varSized \/ f.frameAddressTaken \/ f.disableFPElim

\* a reserved set that holds R29 only where a frame pointer is needed
getReservedRegsByFP(MF) ==
  (24 .. 28) \cup {31} \cup (56 .. 63) \cup (IF hasFP(MF) THEN {FramePointer} ELSE {})

\* the general registers in getReservedRegs: R24-R29, R31 and R56-R63,
\* set without looking at the function
getReservedRegs(MF) == (24 .. 29) \cup {31} \cup (56 .. 63)

hasReservedCallFrame(f) == ~f.varSized

FI(op, arg) == [op |-> op, arg |-> arg]

\* ascending register order of the CalleeSavedInfo list
RECURSIVE SortedRegs(_)
SortedRegs(S) ==
  IF S = {} THEN <<>>
  ELSE LET lo == CHOOSE r \in S : \A q \in S : r <= q
       IN  <<lo>> \o SortedRegs(S \ {lo})

Reverse(q) == [i \in 1 .. Len(q) |-> q[Len(q) + 1 - i]]

RECURSIVE Flatten(_)
Flatten(qq) == IF qq = <<>> THEN <<>> ELSE Head(qq) \o Flatten(Tail(qq))

\* TargetFrameLowering::determineCalleeSaves without the frame-pointer reset
determineCalleeSavesKeepFP(f) == f.modified \cap CalleeSavedRegs

determineCalleeSaves(f) ==
  IF hasFP(f)
  THEN (f.modified \cap CalleeSavedRegs) \ {FramePointer}
  ELSE f.modified \cap CalleeSavedRegs

spillCalleeSavedRegisters(f, CSI) ==
  Flatten([i \in 1 .. Len(CSI) |->
     IF CSI[i] = FramePointer /\ hasFP(f) THEN <<>>
     ELSE <<FI("LDA_DP", getDPOffset(CSI[i])), FI("PHA", 0)>>])

\* a restore that walks the list in spill order
restoreCalleeSavedRegistersForward(f, CSI) ==
  Flatten([i \in 1 .. Len(CSI) |->
     IF CSI[i] = FramePointer /\ hasFP(f) THEN <<>>
     ELSE <<FI("PLA", 0), FI("STA_DP", getDPOffset(CSI[i]))>>])

restoreCalleeSavedRegisters(f, CSI) ==
  Flatten([i \in 1 .. Len(CSI) |->
     LET Reg == Reverse(CSI)[i]
     IN  IF Reg = FramePointer /\ hasFP(f) THEN <<>>
         ELSE <<FI("PLA", 0), FI("STA_DP", getDPOffset(Reg))>>])

emitPrologue(f) ==
  (IF hasFP(f)
   THEN <<FI("LDA_DP", getDPOffset(FramePointer)), FI("PHA", 0), FI("TSX", 0),
          FI("TXA", 0), FI("STA_DP", getDPOffset(FramePointer))>>
   ELSE <<>>)
  \o
  (IF f.stackSize = 0 THEN <<>>
   ELSE <<FI("TSX", 0), FI("TXA", 0), FI("SEC", 0), FI("SBC_IMM", f.stackSize),
          FI("TAX", 0), FI("TXS", 0)>>)

\* an epilogue that only adds the stack size back
emitEpilogueAddOnly(f) ==
  IF f.stackSize > 0
  THEN <<FI("TSX", 0), FI("TXA", 0), FI("CLC", 0), FI("ADC_IMM", f.stackSize),
         FI("TAX", 0), FI("TXS", 0)>>
  ELSE <<>>

emitEpilogue(f) ==
  IF hasFP(f)
  THEN <<FI("LDA_DP", getDPOffset(FramePointer)), FI("TAX", 0), FI("TXS", 0),
         FI("PLA", 0), FI("STA_DP", getDPOffset(FramePointer))>>
  ELSE IF f.stackSize > 0
  THEN <<FI("TSX", 0), FI("TXA", 0), FI("CLC", 0), FI("ADC_IMM", f.stackSize),
         FI("TAX", 0), FI("TXS", 0)>>
  ELSE <<>>

\* one instruction of frame code on the machine m; a push stores the word
\* at the stack pointer and lowers the stack pointer by four
FrameStep(i, m) ==
  CASE i.op = "LDA_DP"  -> [m EXCEPT !.a = m.dp[i.arg]]
    [] i.op = "STA_DP"  -> [m EXCEPT !.dp = [d \in DOMAIN m.dp |-> IF d = i.arg THEN m.a ELSE m.dp[d]]]
    [] i.op = "PHA"     -> [m EXCEPT !.mem = [x \in DOMAIN m.mem \cup {m.sp} |->
                                                IF x = m.sp THEN m.a ELSE m.mem[x]],
                                     !.sp = m.sp - 4]
    [] i.op = "PLA"     -> [m EXCEPT !.a = IF (m.sp + 4) \in DOMAIN m.mem
                                           THEN m.mem[m.sp + 4] ELSE 0,
                                     !.sp = m.sp + 4]
    [] i.op = "TSX"     -> [m EXCEPT !.x = m.sp]
    [] i.op = "TXS"     -> [m EXCEPT !.sp = m.x]
    [] i.op = "TXA"     -> [m EXCEPT !.a = m.x]
    [] i.op = "TAX"     -> [m EXCEPT !.x = m.a]
    [] i.op = "SEC"     -> [m EXCEPT !.c = TRUE]
    [] i.op = "CLC"     -> [m EXCEPT !.c = FALSE]
    [] i.op = "SBC_IMM" -> [m EXCEPT !.a = m.a - i.arg - (IF m.c THEN 0 ELSE 1)]
    [] i.op = "ADC_IMM" -> [m EXCEPT !.a = m.a + i.arg + (IF m.c THEN 1 ELSE 0)]

RECURSIVE RunFrameCode(_, _)
RunFrameCode(c, m) == IF c = <<>> THEN m ELSE RunFrameCode(Tail(c), FrameStep(Head(c), m))

\* MFI.getObjectOffset + MFI.getStackSize, the part both resolvers share
getFrameIndexReference(f, ObjectOffset) ==
  IF hasFP(f)
  THEN [base |-> "R29", offset |-> ObjectOffset + f.stackSize]
  ELSE [base |-> "SP",  offset |-> ObjectOffset + f.stackSize]

getFrameRegister(f) == "B"

\* usesBRelAddr turns the frame index into an immediate that the
\* instruction adds to B; otherwise the operand becomes the frame register
eliminateFrameIndex(f, ObjectOffset, SPAdj, Imm, usesBRelAddr) ==
  [base   |-> IF usesBRelAddr THEN "B" ELSE getFrameRegister(f),
   offset |-> ObjectOffset + f.stackSize + SPAdj + Imm]

StackSizes == {0, 4, 255, 256, 65536}

\* incoming stack arguments lie at and above the frame base, locals below it
ObjectOffsets(f) == {0, 4} \cup {o \in {-4, -(f.stackSize)} : -(f.stackSize) <= o /\ o < 0}

\* SP adjustment in force at a reference inside a call sequence whose call
\* frame is not reserved
SPAdjs(f) == IF hasReservedCallFrame(f) THEN {0} ELSE {0, 4}

Functions ==
  [stackSize : StackSizes, varSized : BOOLEAN, frameAddressTaken : BOOLEAN,
   disableFPElim : BOOLEAN, modified : SUBSET CalleeSavedRegs]

DPSlots == {getDPOffset(r) : r \in CalleeSavedRegs}

StackTop == 2 ^ 20

BankBases == {0, 65536}

EntryStates ==
  {[a |-> 0, x |-> 0, c |-> FALSE, sp |-> StackTop, b |-> bb,
    dp |-> [d \in DPSlots |-> 7000 + d], mem |-> [k \in {} |-> 0]] : bb \in BankBases}

FInit ==
  /\ fphase = "func"
  /\ fn \in Functions
  /\ entry \in EntryStates
  /\ savedRegs = {}
  /\ spillCode = <<>> /\ restoreCode = <<>>
  /\ prologue = <<>> /\ epilogue = <<>>
  /\ refs = {}
  /\ IdleButF

DetermineCalleeSaves ==
  /\ fphase = "func"
  /\ savedRegs' = determineCalleeSaves(fn)
  /\ fphase' = "saves"
  /\ UNCHANGED <<fn, entry, spillCode, restoreCode, prologue, epilogue, refs>>
  /\ UNCHANGED nonF

SpillCalleeSavedRegisters ==
  /\ fphase = "saves"
  /\ spillCode' = spillCalleeSavedRegisters(fn, SortedRegs(savedRegs))
  /\ fphase' = "spilled"
  /\ UNCHANGED <<fn, entry, savedRegs, restoreCode, prologue, epilogue, refs>>
  /\ UNCHANGED nonF

RestoreCalleeSavedRegisters ==
  /\ fphase = "spilled"
  /\ restoreCode' = restoreCalleeSavedRegisters(fn, SortedRegs(savedRegs))
  /\ fphase' = "restored"
  /\ UNCHANGED <<fn, entry, savedRegs, spillCode, prologue, epilogue, refs>>
  /\ UNCHANGED nonF

EmitPrologue ==
  /\ fphase = "restored"
  /\ prologue' = emitPrologue(fn)
  /\ fphase' = "prologue"
  /\ UNCHANGED <<fn, entry, savedRegs, spillCode, restoreCode, epilogue, refs>>
  /\ UNCHANGED nonF

EmitEpilogue ==
  /\ fphase = "prologue"
  /\ epilogue' = emitEpilogue(fn)
  /\ fphase' = "framed"
  /\ UNCHANGED <<fn, entry, savedRegs, spillCode, restoreCode, prologue, refs>>
  /\ UNCHANGED nonF

MaxRefs == 2

EliminateFrameIndex ==
  /\ fphase = "framed"
  /\ Cardinality(refs) < MaxRefs
  /\ \E o \in ObjectOffsets(fn), adj \in SPAdjs(fn), imm \in {0, 4}, brel \in BOOLEAN :
       refs' = refs \cup
         {[by |-> "eliminateFrameIndex", slot |-> o, imm |-> imm, spadj |-> adj,
           res |-> eliminateFrameIndex(fn, o, adj, imm, brel)]}
  /\ UNCHANGED <<fphase, fn, entry, savedRegs, spillCode, restoreCode, prologue, epilogue>>
  /\ UNCHANGED nonF

GetFrameIndexReference ==
  /\ fphase = "framed"
  /\ Cardinality(refs) < MaxRefs
  /\ \E o \in ObjectOffsets(fn) :
       refs' = refs \cup
         {[by |-> "getFrameIndexReference", slot |-> o, imm |-> 0, spadj |-> 0,
           res |-> getFrameIndexReference(fn, o)]}
  /\ UNCHANGED <<fphase, fn, entry, savedRegs, spillCode, restoreCode, prologue, epilogue>>
  /\ UNCHANGED nonF

FNext ==
  \/ DetermineCalleeSaves \/ SpillCalleeSavedRegisters \/ RestoreCalleeSavedRegisters
  \/ EmitPrologue \/ EmitEpilogue \/ EliminateFrameIndex \/ GetFrameIndexReference

FrameSpec == FInit /\ [][FNext]_vars

\* machine state once the prologue and the callee-save pushes have run
AfterPrologue == RunFrameCode(prologue \o spillCode, entry)

\* value of the base register of a reference at the point of the reference:
\* SP is lower by the SP adjustment in force, R29 and B do not move
BaseValue(r) ==
  CASE r.res.base = "SP"  -> AfterPrologue.sp - r.spadj
    [] r.res.base = "R29" -> AfterPrologue.dp[getDPOffset(FramePointer)]
    [] r.res.base = "B"   -> AfterPrologue.b

FinalAddress(r) == BaseValue(r) + r.res.offset

\* C6: with or without a frame-base register and for each stack size in
\* {0, 4, 255, 256, 65536}, the final address of a frame slot (the value
\* the prologue left in the resolved base register plus the resolved
\* offset) is the same for every reference to it, whether resolved by
\* getFrameIndexReference or by eliminateFrameIndex.
C6_SlotAddressConsistent ==
  \A r1 \in refs : \A r2 \in refs :
    (r1.slot = r2.slot /\ r1.imm = r2.imm) => FinalAddress(r1) = FinalAddress(r2)

\* C7: a frame-slot reference is rewritten to SP plus a constant when the
\* function needs no frame base, and to the frame-base register established
\* by the prologue plus a constant when it needs one.
C7_BaseRegisterByFrameKind ==
  \A r \in refs : r.res.base = (IF hasFP(fn) THEN "R29" ELSE "SP")

PushesOf(c, dpoff) ==
  Cardinality({i \in 1 .. Len(c) - 1 :
                 c[i] = FI("LDA_DP", dpoff) /\ c[i + 1].op = "PHA"})

PopsOf(c, dpoff) ==
  Cardinality({i \in 1 .. Len(c) - 1 :
                 c[i].op = "PLA" /\ c[i + 1] = FI("STA_DP", dpoff)})

\* C8: when the function needs a frame-base register, that register is not
\* in the set determineCalleeSaves chooses, spillCalleeSavedRegisters emits
\* no push of it and restoreCalleeSavedRegisters no pop of it; the prologue
\* pushes it once and the epilogue pops it once.
C8_FramePointerSavedOnce ==
  (fphase = "framed" /\ hasFP(fn)) =>
    /\ FramePointer \notin savedRegs
    /\ PushesOf(spillCode, getDPOffset(FramePointer)) = 0
    /\ PopsOf(restoreCode, getDPOffset(FramePointer)) = 0
    /\ PushesOf(prologue, getDPOffset(FramePointer)) = 1
    /\ PopsOf(epilogue, getDPOffset(FramePointer)) = 1

\* a function with a frame pointer that modifies R29 and another
\* callee-saved register, which the generic code does push and pop
C8_Witness ==
  /\ fphase = "framed" /\ hasFP(fn)
  /\ FramePointer \in fn.modified
  /\ 16 \in savedRegs
  /\ PushesOf(spillCode, getDPOffset(16)) = 1
  /\ PopsOf(restoreCode, getDPOffset(16)) = 1

\* what a function body may leave in A, X and the carry
BodyClobbers == [a : {0, 99}, x : {0, 99}, c : BOOLEAN]

\* a body that leaves SP as it found it, and R29 too when R29 is the frame
\* base; it overwrites A, X, the carry and the registers it modifies
RunBody(f, m, cl) ==
  [m EXCEPT !.a = cl.a, !.x = cl.x, !.c = cl.c,
            !.dp = [d \in DOMAIN m.dp |->
                     IF /\ \E r \in f.modified : getDPOffset(r) = d
                        /\ ~(hasFP(f) /\ d = getDPOffset(FramePointer))
                     THEN 4242 ELSE m.dp[d]]]

\* the machine at the return instruction: prologue, callee-save pushes,
\* body, callee-save pops, epilogue
AtReturn(cl) ==
  RunFrameCode(restoreCode \o epilogue,
               RunBody(fn, RunFrameCode(prologue \o spillCode, entry), cl))

\* C11: for a function with or without a frame base and for any stack
\* size, after the prologue, a body that leaves SP (and the frame-base
\* register when one is used) as the prologue set it, and the epilogue,
\* SP and the frame-base register hold their values at function entry.
C11_PrologueEpilogueRoundTrip ==
  fphase = "framed" =>
    \A cl \in BodyClobbers :
      /\ AtReturn(cl).sp = entry.sp
      /\ AtReturn(cl).dp[getDPOffset(FramePointer)] = entry.dp[getDPOffset(FramePointer)]

\* a framed function with a frame pointer and 256 bytes of stack whose
\* prologue moved SP and R29 and whose body changed a callee-saved register
C11_Witness ==
  /\ fphase = "framed" /\ hasFP(fn) /\ fn.stackSize = 256
  /\ 16 \in fn.modified
  /\ AfterPrologue.sp = entry.sp - 4 - 256 - 4
  /\ AfterPrologue.dp[getDPOffset(FramePointer)] = entry.sp - 4
  /\ AtReturn([a |-> 99, x |-> 99, c |-> TRUE]).sp = entry.sp

----------------------------------------------------------------------------
(* Call lowering and the call sequence *)

Max(a, b) == IF a >= b THEN a ELSE b

\* the call-frame size without the floor of four bytes
CallFrameSizeNoFloor(StackSize) == StackSize

\* unsigned CallFrameSize = std::max(StackSize, 4u)
CallFrameSize(StackSize) == Max(StackSize, 4)

CI(op, n) == [op |-> op, n |-> n]

\* one store per stack-passed argument word, at SP + VA.getLocMemOffset()
ArgStores(StackSize) == [i \in 1 .. (StackSize \div 4) |-> CI("STORE", 4 * (i - 1))]

\* the nodes LowerCall chains: CALLSEQ_START, the argument stores, the
\* call, CALLSEQ_END
LowerCallSeq(StackSize) ==
  <<CI("ADJCALLSTACKDOWN", CallFrameSize(StackSize))>>
  \o ArgStores(StackSize)
  \o <<CI("JSR", 0)>>
  \o <<CI("ADJCALLSTACKUP", CallFrameSize(StackSize))>>

CallFramePseudos == {"ADJCALLSTACKDOWN", "ADJCALLSTACKUP"}

\* erasing the pseudo whatever the frame looks like
eliminateCallFramePseudoInstrErase(f, MI) == <<>>

\* what replaces one call-frame pseudo
eliminateCallFramePseudoInstr(f, MI) ==
  IF hasReservedCallFrame(f) THEN <<>>
  ELSE IF MI.n = 0 THEN <<>>
  ELSE IF MI.op = "ADJCALLSTACKDOWN" THEN <<CI("SUBSP", MI.n)>>
  ELSE <<CI("ADDSP", MI.n)>>

FirstPseudo(q) ==
  IF \E i \in 1 .. Len(q) : q[i].op \in CallFramePseudos
  THEN CHOOSE i \in 1 .. Len(q) :
         /\ q[i].op \in CallFramePseudos
         /\ \A j \in 1 .. (i - 1) : q[j].op \notin CallFramePseudos
  ELSE 0

\* bytes of stack-passed arguments at the call site
ArgBytes == {0, 4, 8}

LocalSizes == {4, 8}

\* largest call frame among the function's other call sites
OtherCallFrames == {0, 12}

\* stack taken by variable-sized objects before the call
DynamicSizes(varSized) == IF varSized THEN {0, 8} ELSE {0}

\* the return-address push stores at SP and then lowers SP, or lowers SP
\* and then stores at SP
PushStyles == {"store-then-lower", "lower-then-store"}

CallSites ==
  {[argBytes |-> ab, localSize |-> ls, otherMax |-> om, varSized |-> vs,
    dyn |-> d, push |-> ps, frameAddressTaken |-> FALSE, disableFPElim |-> FALSE] :
     ab \in ArgBytes, ls \in LocalSizes, om \in OtherCallFrames,
     vs \in BOOLEAN, d \in {0, 8}, ps \in PushStyles}

\* SP once the prologue has allocated the frame
FrameSP == 2 ^ 12

Window == 32

StackBytes == (FrameSP - Window) .. (FrameSP + Window)

\* MaxCallFrameSize, part of the stack size when the call frame is reserved
ReservedBytes(c) ==
  IF hasReservedCallFrame(c)
  THEN Max(CallFrameSize(c.argBytes), c.otherMax)
  ELSE 0

\* the bytes of the caller's local-variable slots: the allocated frame above
\* the reserved call frame
LocalBytes(c) ==
  {a \in StackBytes : FrameSP + ReservedBytes(c) <= a
                      /\ a < FrameSP + ReservedBytes(c) + c.localSize}

CInit ==
  /\ cphase = "site"
  /\ site \in {c \in CallSites : c.dyn \in DynamicSizes(c.varSized)}
  /\ cseq = <<>>
  /\ cpc = 1
  /\ csp = FrameSP - site.dyn
  /\ cmem = [a \in StackBytes |-> 0]
  /\ cargs = [st |-> {}, ld |-> {}]
  /\ IdleButC

LowerCall ==
  /\ cphase = "site"
  /\ cseq' = LowerCallSeq(site.argBytes)
  /\ cphase' = "lowered"
  /\ UNCHANGED <<site, cpc, csp, cmem, cargs>>
  /\ UNCHANGED nonC

\* called once for each call-frame pseudo
EliminateCallFramePseudoInstr ==
  /\ cphase = "lowered"
  /\ FirstPseudo(cseq) # 0
  /\ LET i == FirstPseudo(cseq)
         q == SubSeq(cseq, 1, i - 1)
                \o eliminateCallFramePseudoInstr(site, cseq[i])
                \o SubSeq(cseq, i + 1, Len(cseq))
     IN  /\ cseq' = q
         /\ cphase' = IF FirstPseudo(q) = 0 THEN "run" ELSE "lowered"
  /\ UNCHANGED <<site, cpc, csp, cmem, cargs>>
  /\ UNCHANGED nonC

AtCall(op) == cphase = "run" /\ cpc <= Len(cseq) /\ cseq[cpc].op = op

WriteBytes(mem, lo, hi, who) ==
  [a \in DOMAIN mem |-> IF lo <= a /\ a <= hi THEN who ELSE mem[a]]

ExecAdjustSP ==
  /\ AtCall("SUBSP") \/ AtCall("ADDSP")
  /\ csp' = IF cseq[cpc].op = "SUBSP" THEN csp - cseq[cpc].n ELSE csp + cseq[cpc].n
  /\ cpc' = cpc + 1
  /\ UNCHANGED <<cphase, site, cseq, cmem, cargs>>
  /\ UNCHANGED nonC

ExecStoreArg ==
  /\ AtCall("STORE")
  /\ cmem' = WriteBytes(cmem, csp + cseq[cpc].n, csp + cseq[cpc].n + 3, 1)
  /\ cargs' = [cargs EXCEPT !.st = @ \cup {<<cseq[cpc].n, csp + cseq[cpc].n>>}]
  /\ cpc' = cpc + 1
  /\ UNCHANGED <<cphase, site, cseq, csp>>
  /\ UNCHANGED nonC

\* JSR pushes the four-byte return address
ExecCall ==
  /\ AtCall("JSR")
  /\ cmem' = IF site.push = "store-then-lower"
             THEN WriteBytes(cmem, csp - 3, csp, 2)
             ELSE WriteBytes(cmem, csp - 4, csp - 1, 2)
  /\ csp' = csp - 4
  /\ cphase' = "callee"
  /\ UNCHANGED <<site, cseq, cpc, cargs>>
  /\ UNCHANGED nonC

\* the frames a called function may have
CalleeStackSizes == {0, 8}

Callees ==
  [stackSize : CalleeStackSizes, varSized : {FALSE}, frameAddressTaken : {FALSE},
   disableFPElim : {FALSE}, modified : {{}}]

\* the fixed objects LowerFormalArguments creates for the stack-passed
\* arguments, one at each VA.getLocMemOffset()
LowerFormalArguments(StackSize) == {4 * (i - 1) : i \in 1 .. (StackSize \div 4)}

\* B when the callee's body runs: the stack pointer after the callee's
\* local allocation, which is what eliminateFrameIndex takes it to be, or
\* what the caller left in it, because emitPrologue does not write B
CalleeBases(f) == {csp - f.stackSize, FrameSP, 0}

\* the callee reads each stack argument through its frame index
CalleeLoadArgs ==
  /\ cphase = "callee"
  /\ \E f \in Callees : \E b \in CalleeBases(f) :
       cargs' = [cargs EXCEPT !.ld =
                  {<<N, b + eliminateFrameIndex(f, N, 0, 0, TRUE).offset>> :
                      N \in LowerFormalArguments(site.argBytes)}]
  /\ cphase' = "body"
  /\ UNCHANGED <<site, cseq, cpc, csp, cmem>>
  /\ UNCHANGED nonC

\* the callee's RTS pops the return address
ExecReturn ==
  /\ cphase = "body"
  /\ csp' = csp + 4
  /\ cpc' = cpc + 1
  /\ cphase' = "run"
  /\ UNCHANGED <<site, cseq, cmem, cargs>>
  /\ UNCHANGED nonC

FinishCall ==
  /\ cphase = "run"
  /\ cpc > Len(cseq)
  /\ cphase' = "done"
  /\ UNCHANGED <<site, cseq, cpc, csp, cmem, cargs>>
  /\ UNCHANGED nonC

CNext ==
  \/ LowerCall \/ EliminateCallFramePseudoInstr \/ ExecAdjustSP \/ ExecStoreArg
  \/ ExecCall \/ CalleeLoadArgs \/ ExecReturn \/ FinishCall

CallSpec == CInit /\ [][CNext]_vars

\* the sizes carried by the call-sequence start and end markers
MarkerSizes == {cseq[i].n : i \in {j \in 1 .. Len(cseq) : cseq[j].op \in CallFramePseudos}}

\* C9: at every call site, also one without stack-passed arguments, the
\* call-frame size on the call-sequence start and end markers is at least
\* 4 bytes and at least the number of bytes of stack-passed arguments.
C9_CallFrameCoversReturnAddress ==
  \A n \in MarkerSizes : n >= 4 /\ n >= site.argBytes

\* a lowered call without stack arguments whose two markers carry 4
C9_Witness ==
  /\ cphase = "lowered" /\ site.argBytes = 0
  /\ Len(cseq) = 3
  /\ cseq[1] = CI("ADJCALLSTACKDOWN", 4) /\ cseq[3] = CI("ADJCALLSTACKUP", 4)

\* C10: after the complete call sequence (call-frame setup, argument
\* stores, return-address push, the callee's return, call-frame teardown)
\* every byte of the caller's local-variable slots holds what it held
\* before.
C10_LocalsSurviveCall ==
  cphase = "done" => \A a \in LocalBytes(site) : cmem[a] = 0

\* a finished call without stack arguments, with a reserved call frame no
\* larger than the four bytes of this call, whose return address was
\* written at the byte SP pointed to, four bytes below the lowest local
C10_Witness ==
  /\ cphase = "done"
  /\ site.argBytes = 0 /\ ~site.varSized /\ site.otherMax = 0
  /\ site.push = "store-then-lower"
  /\ cmem[FrameSP] = 2
  /\ (FrameSP + 4) \in LocalBytes(site)

----------------------------------------------------------------------------
(* Immediate operand fields: encodeInstruction, applyFixup, getRelocType *)

EXT_PREFIX == 2

\* byte i of the two's-complement value v
Byte(v, i) == (v \div (256 ^ i)) % 256

emitLE16(Val) == <<Byte(Val, 0), Byte(Val, 1)>>

emitLE32(Val) == <<Byte(Val, 0), Byte(Val, 1), Byte(Val, 2), Byte(Val, 3)>>

\* a fixup against the operand's expression
Fixup(Offset, MO, Kind, Addend) ==
  [offset |-> Offset, kind |-> Kind, sym |-> MO.sym, addend |-> Addend,
   pcrel |-> FALSE]

\* emitImm8 without the fixup for a symbolic operand
emitImm8NoFixup(MO, Offset) ==
  [bytes |-> <<IF MO.isImm \/ (MO.isExpr /\ MO.isConst) THEN Byte(MO.imm, 0) ELSE 0>>,
   fixups |-> <<>>]

emitImm8(MO, Offset) ==
  IF MO.isImm THEN [bytes |-> <<Byte(MO.imm, 0)>>, fixups |-> <<>>]
  ELSE IF MO.isExpr
  THEN IF MO.isConst
       THEN [bytes |-> <<Byte(MO.imm, 0)>>, fixups |-> <<>>]
       ELSE [bytes |-> <<0>>, fixups |-> <<Fixup(Offset, MO, "FK_Data_1", 0)>>]
  ELSE [bytes |-> <<0>>, fixups |-> <<>>]

emitImm32(MO, Offset) ==
  IF MO.isImm THEN [bytes |-> emitLE32(MO.imm), fixups |-> <<>>]
  ELSE IF MO.isExpr
  THEN IF MO.isConst
       THEN [bytes |-> emitLE32(MO.imm), fixups |-> <<>>]
       ELSE [bytes |-> emitLE32(0), fixups |-> <<Fixup(Offset, MO, "FK_Data_4", 0)>>]
  ELSE [bytes |-> emitLE32(0), fixups |-> <<>>]

regToDP(Reg) == (Reg * 4) % 256

emitDPOp(MO, Offset) ==
  IF MO.isReg THEN [bytes |-> <<regToDP(MO.imm)>>, fixups |-> <<>>]
  ELSE emitImm8(MO, Offset)

\* the encodings with an immediate field: the bytes written before the
\* field, the lambda that writes it and the offset handed to the lambda
InstrForms ==
  { [name |-> "MUL_DP",   prefix |-> <<EXT_PREFIX, 0>>,            emit |-> "emitImm8",  offset |-> 2, pcrel |-> FALSE],
    [name |-> "SB_IMM",   prefix |-> <<EXT_PREFIX, 34>>,           emit |-> "emitImm32", offset |-> 2, pcrel |-> FALSE],
    [name |-> "MOVR_DP",  prefix |-> <<EXT_PREFIX, 128, 160, 4>>,  emit |-> "emitDPOp",  offset |-> 4, pcrel |-> FALSE],
    [name |-> "LDR_IMM",  prefix |-> <<EXT_PREFIX, 128, 184, 4>>,  emit |-> "emitImm32", offset |-> 4, pcrel |-> FALSE],
    [name |-> "LDB_ABS",  prefix |-> <<EXT_PREFIX, 128, 40, 4>>,   emit |-> "emitImm16", offset |-> 4, pcrel |-> FALSE],
    [name |-> "LDA_DP",   prefix |-> <<165>>,                      emit |-> "emitDPOp",  offset |-> 1, pcrel |-> FALSE],
    [name |-> "LDA_ABS",  prefix |-> <<173>>,                      emit |-> "emitImm16", offset |-> 1, pcrel |-> FALSE],
    [name |-> "BEQ",      prefix |-> <<240>>,                      emit |-> "emitImm16", offset |-> 1, pcrel |-> TRUE],
    [name |-> "LDA_IMM",  prefix |-> <<169>>,                      emit |-> "emitImm32", offset |-> 1, pcrel |-> FALSE] }

NOP == 234

\* the opcode byte, NOP for an opcode without a case
getOpcode(MIOpcode) ==
  CASE MIOpcode = "LDA_DP"  -> 165
    [] MIOpcode = "LDA_IMM" -> 169
    [] MIOpcode = "LDA_ABS" -> 173
    [] MIOpcode = "BEQ"     -> 240
    [] MIOpcode = "RTS"     -> 96
    [] OTHER                -> NOP

\* Desc.getSize() of an instruction encoded by the switch on Size alone
InstrSizes == {1, 3, 4}

\* RTS, an instruction without operands, under each size
SizedForms ==
  {[name |-> "RTS", prefix |-> <<>>, emit |-> "bySize", offset |-> z, pcrel |-> FALSE] :
      z \in InstrSizes}

\* the indirect call JSR_DP_IND that expandPostRAPseudo builds has no case
\* in getOpcode and none in encodeInstruction: it takes the two-byte path,
\* emitByte(Opcode) and emitDPOp(MO, 1)
UnruledForms ==
  {[name |-> "JSR_DP_IND", prefix |-> <<getOpcode("JSR_DP_IND")>>,
    emit |-> "emitDPOp", offset |-> 1, pcrel |-> FALSE]}

\* the opcodes getOpcode or encodeInstruction has a case for
EncodableOpcodes ==
  {f.name : f \in InstrForms} \cup {"RTS"}

\* the sizes the switch on Size has a case for
EncodableSizes == {0, 1, 2, 3, 5}

\* switch (Size) for an instruction without operands
encodeBySize(Opcode, Size) ==
  CASE Size \in {0, 1} -> <<Opcode>>
    [] Size = 2        -> <<Opcode, 0>>
    [] Size = 3        -> <<Opcode>> \o emitLE16(0)
    [] Size = 5        -> <<Opcode>> \o emitLE32(0)
    [] OTHER           -> [i \in 1 .. Size |-> NOP]

FieldWidth(form) ==
  CASE form.emit \in {"emitImm8", "emitDPOp"} -> 1
    [] form.emit = "emitImm16"                -> 2
    [] form.emit = "emitImm32"                -> 4
    [] form.emit = "bySize"                   -> 0

\* the bytes appended to CB and the fixups appended to Fixups
encodeInstruction(MI) ==
  LET e == CASE MI.form.emit = "emitImm8"  -> emitImm8(MI.op, MI.form.offset)
             [] MI.form.emit = "emitDPOp"  -> emitDPOp(MI.op, MI.form.offset)
             [] MI.form.emit = "emitImm32" -> emitImm32(MI.op, MI.form.offset)
             [] MI.form.emit = "emitImm16" ->
                  LET h == emitImm16(MI.op, MI.form.offset, MI.form.pcrel)
                  IN  [bytes |-> emitLE16(h.field), fixups |-> h.fixups]
             [] MI.form.emit = "bySize" ->
                  [bytes |-> encodeBySize(getOpcode(MI.form.name), MI.form.offset),
                   fixups |-> <<>>]
  IN  [CB |-> MI.form.prefix \o e.bytes, Fixups |-> e.fixups]

\* NumBytes of applyFixup
NumBytes(Kind) ==
  CASE Kind \in {"FK_Data_1", "fixup_m65832_8", "fixup_m65832_pcrel_8"}   -> 1
    [] Kind \in {"FK_Data_2", "fixup_m65832_16", "fixup_m65832_pcrel_16"} -> 2
    [] Kind = "fixup_m65832_24"                                          -> 3
    [] Kind \in {"FK_Data_4", "fixup_m65832_32"}                          -> 4

\* Data after applyFixup wrote Value at the fixup's offset
applyFixup(Data, Fx, Value) ==
  IF Value = 0 THEN Data
  ELSE [i \in 1 .. Len(Data) |->
          IF Fx.offset < i /\ i <= Fx.offset + NumBytes(Fx.kind)
          THEN Byte(Value, i - 1 - Fx.offset)
          ELSE Data[i]]

OperandValues == {0, 5, 255, 256, 300, 65535, 65536, 70000, -1, -129, -40000}

SymbolAddrs == {4096, 70000}

Operands ==
  {[isImm |-> TRUE, isExpr |-> FALSE, isConst |-> FALSE, isReg |-> FALSE,
    imm |-> v, sym |-> 0] : v \in OperandValues}
  \cup
  {[isImm |-> FALSE, isExpr |-> TRUE, isConst |-> TRUE, isReg |-> FALSE,
    imm |-> v, sym |-> v] : v \in OperandValues}
  \cup
  {[isImm |-> FALSE, isExpr |-> TRUE, isConst |-> FALSE, isReg |-> FALSE,
    imm |-> 0, sym |-> a] : a \in SymbolAddrs}
  \cup
  {[isImm |-> FALSE, isExpr |-> FALSE, isConst |-> FALSE, isReg |-> TRUE,
    imm |-> r, sym |-> 0] : r \in {1, 16}}

\* MI.getNumOperands() = 0
NoOperand ==
  [isImm |-> FALSE, isExpr |-> FALSE, isConst |-> FALSE, isReg |-> FALSE,
   imm |-> 0, sym |-> 0]

\* a register is the last operand only of the direct-page forms
MCInsts ==
  ({[form |-> f, op |-> o] : f \in InstrForms, o \in Operands} \
   {i \in [form : InstrForms, op : Operands] :
      i.op.isReg /\ i.form.emit # "emitDPOp"})
  \cup {[form |-> f, op |-> NoOperand] : f \in SizedForms}
  \cup {[form |-> f, op |-> o] : f \in UnruledForms, o \in {q \in Operands : q.isImm}}

IInit ==
  /\ iphase = "inst"
  /\ imi \in MCInsts
  /\ iCB = <<>>
  /\ iFixups = <<>>
  /\ iRelocs = <<>>
  /\ IdleButI

EncodeImmInstruction ==
  /\ iphase = "inst"
  /\ iCB' = encodeInstruction(imi).CB
  /\ iFixups' = encodeInstruction(imi).Fixups
  /\ iphase' = "encoded"
  /\ UNCHANGED <<imi, iRelocs>>
  /\ UNCHANGED nonI

\* the assembler evaluates each fixup and calls applyFixup: a fixup whose
\* expression is constant is resolved and its value written; any other
\* gets a relocation (with the addend in the relocation, value 0 in place)
ApplyImmFixup ==
  /\ iphase = "encoded"
  /\ IF iFixups = <<>>
     THEN iphase' = "object" /\ UNCHANGED <<iCB, iRelocs>>
     ELSE IF imi.op.isConst
     THEN /\ iCB' = applyFixup(iCB, iFixups[1], iFixups[1].sym + iFixups[1].addend)
          /\ iphase' = "object"
          /\ UNCHANGED iRelocs
     ELSE \E ty \in getRelocType(iFixups[1].kind, iFixups[1].pcrel) :
            /\ iphase' = IF ty = "abort" THEN "failed" ELSE "object"
            /\ iRelocs' = IF ty = "abort" THEN <<>>
                          ELSE <<[type |-> ty, offset |-> iFixups[1].offset,
                                  sym |-> iFixups[1].sym, addend |-> iFixups[1].addend]>>
            /\ UNCHANGED iCB
  /\ UNCHANGED <<imi, iFixups>>
  /\ UNCHANGED nonI

INext == EncodeImmInstruction \/ ApplyImmFixup

ImmSpec == IInit /\ [][INext]_vars

TargetFixupKinds == {"fixup_m65832_8", "fixup_m65832_16", "fixup_m65832_24",
                     "fixup_m65832_32", "fixup_m65832_pcrel_8", "fixup_m65832_pcrel_16"}

PCRelKinds == {"fixup_m65832_pcrel_8", "fixup_m65832_pcrel_16"}

AbsoluteRelocs == {"R_M65832_8", "R_M65832_16", "R_M65832_24", "R_M65832_32"}

\* C12: every fixup the encoder creates, with the pc-relative flag it is
\* created with, is mapped by getRelocType to exactly one relocation type;
\* the six target fixup kinds map to six different relocation types; a
\* PC-relative fixup never gets the type of an absolute fixup.
C12_FixupsMapToOneRelocation ==
  /\ \A i \in 1 .. Len(iFixups) :
       LET ty == getRelocType(iFixups[i].kind, iFixups[i].pcrel)
       IN  /\ \E t \in RelocTypes : ty = {t}
           /\ iFixups[i].kind \in PCRelKinds => ty \cap AbsoluteRelocs = {}
  /\ \A k1 \in TargetFixupKinds : \A k2 \in TargetFixupKinds :
       k1 # k2 => getRelocType(k1, k1 \in PCRelKinds) \cap
                  getRelocType(k2, k2 \in PCRelKinds) = {}

\* the operand is an expression whose value the encoder cannot evaluate
Symbolic(MO) == MO.isExpr /\ ~MO.isConst

\* the operand is an immediate or an expression that evaluates to a constant
KnownConstant(MO) == MO.isImm \/ (MO.isExpr /\ MO.isConst)

\* one fixup, at the offset of the field's bytes and as wide as the field,
\* over placeholder bytes of zero
OneFixupOnField ==
  /\ Len(iFixups) = 1
  /\ iFixups[1].offset = Len(imi.form.prefix)
  /\ iFixups[1].offset + NumBytes(iFixups[1].kind) = Len(iCB)
  /\ NumBytes(iFixups[1].kind) = FieldWidth(imi.form)
  /\ iphase = "encoded" =>
       \A i \in (Len(imi.form.prefix) + 1) .. Len(iCB) : iCB[i] = 0

Fits(v, w) == w = 4 \/ (-(2 ^ (8 * w - 1)) <= v /\ v <= 2 ^ (8 * w) - 1)

\* the value the encoder or applyFixup is asked to put into the field
IntendedValue ==
  IF imi.op.isImm THEN (IF imi.form.pcrel THEN imi.op.imm - 3 ELSE imi.op.imm)
  ELSE IF iFixups # <<>> THEN iFixups[1].sym + iFixups[1].addend
  ELSE imi.op.imm

FieldBytes == SubSeq(iCB, Len(imi.form.prefix) + 1, Len(iCB))

Truncated(v, w) == [i \in 1 .. w |-> Byte(v, i - 1)]

\* C20: when an immediate operand or a resolved fixup value does not fit
\* the width of the field, the encoder reports an error and does not
\* write the truncated value: no finished encoding holds the low bytes of
\* a value that does not fit.
C20_NoSilentTruncation ==
  (iphase = "object" /\ KnownConstant(imi.op)
     /\ ~Fits(IntendedValue, FieldWidth(imi.form)))
    => FieldBytes # Truncated(IntendedValue, FieldWidth(imi.form))

----------------------------------------------------------------------------
(* 64-bit shifts in two 32-bit words *)

\* a word is the set of the positions of its one bits
WordBits == 32

BitsOf(n) == 0 .. (n - 1)

\* the value of a shift by an amount outside 0 .. 31
Undef == {-1}

SHL(w, n) ==
  IF w = Undef \/ n < 0 \/ n >= WordBits THEN Undef
  ELSE {i + n : i \in w} \cap BitsOf(WordBits)

SRL(w, n) ==
  IF w = Undef \/ n < 0 \/ n >= WordBits THEN Undef
  ELSE {i - n : i \in w} \cap BitsOf(WordBits)

SRA(w, n) ==
  IF w = Undef \/ n < 0 \/ n >= WordBits THEN Undef
  ELSE ({i - n : i \in w} \cap BitsOf(WordBits))
       \cup (IF (WordBits - 1) \in w THEN (WordBits - n) .. (WordBits - 1) ELSE {})

OR(a, b) == IF a = Undef \/ b = Undef THEN Undef ELSE a \cup b

SELECT(cc, t, f) == IF cc THEN t ELSE f

\* the expansion written with Lo >> (32 - Shamt)
LowerShiftLeftPartsDirect(Lo, Hi, Shamt) ==
  LET CC == Shamt - 32 < 0
  IN  [Lo |-> SELECT(CC, SHL(Lo, Shamt), {}),
       Hi |-> SELECT(CC, OR(SHL(Hi, Shamt), SRL(Lo, 32 - Shamt)),
                         SHL(Lo, Shamt - 32))]

LowerShiftLeftParts(Lo, Hi, Shamt) ==
  LET Zero == {}
      ShamtMinus32 == Shamt + (-32)
      ThirtyOneMinusShamt == 31 - Shamt
      LoTrue == SHL(Lo, Shamt)
      ShiftRight1Lo == SRL(Lo, 1)
      ShiftRightLo == SRL(ShiftRight1Lo, ThirtyOneMinusShamt)
      ShiftLeftHi == SHL(Hi, Shamt)
      HiTrue == OR(ShiftLeftHi, ShiftRightLo)
      HiFalse == SHL(Lo, ShamtMinus32)
      CC == ShamtMinus32 < 0
  IN  [Lo |-> SELECT(CC, LoTrue, Zero), Hi |-> SELECT(CC, HiTrue, HiFalse)]

LowerShiftRightParts(Lo, Hi, Shamt, IsSRA) ==
  LET Zero == {}
      ShamtMinus32 == Shamt + (-32)
      ThirtyOneMinusShamt == 31 - Shamt
      ShiftRightLo == SRL(Lo, Shamt)
      ShiftLeftHi1 == SHL(Hi, 1)
      ShiftLeftHi == SHL(ShiftLeftHi1, ThirtyOneMinusShamt)
      LoTrue == OR(ShiftRightLo, ShiftLeftHi)
      HiTrue == IF IsSRA THEN SRA(Hi, Shamt) ELSE SRL(Hi, Shamt)
      LoFalse == IF IsSRA THEN SRA(Hi, ShamtMinus32) ELSE SRL(Hi, ShamtMinus32)
      HiFalse == IF IsSRA THEN SRA(Hi, 31) ELSE Zero
      CC == ShamtMinus32 < 0
  IN  [Lo |-> SELECT(CC, LoTrue, LoFalse), Hi |-> SELECT(CC, HiTrue, HiFalse)]

ShiftWords == { {}, {0}, {WordBits - 1}, BitsOf(WordBits), {0, WordBits - 1},
                {4, 9, 17, 30}, {1, 2, 3, 28} }

ShiftAmounts == 0 .. (2 * WordBits - 1)

ShiftNodes ==
  [op : {"SHL_PARTS", "SRL_PARTS", "SRA_PARTS"}, Lo : ShiftWords, Hi : ShiftWords,
   Shamt : ShiftAmounts]

SInit ==
  /\ sphase = "node"
  /\ snode \in ShiftNodes
  /\ sparts = NoValue
  /\ IdleButS

LowerSHL_PARTS ==
  /\ sphase = "node" /\ snode.op = "SHL_PARTS"
  /\ sparts' = LowerShiftLeftParts(snode.Lo, snode.Hi, snode.Shamt)
  /\ sphase' = "lowered"
  /\ UNCHANGED snode
  /\ UNCHANGED nonS

LowerSRx_PARTS ==
  /\ sphase = "node" /\ snode.op \in {"SRL_PARTS", "SRA_PARTS"}
  /\ sparts' = LowerShiftRightParts(snode.Lo, snode.Hi, snode.Shamt,
                                    snode.op = "SRA_PARTS")
  /\ sphase' = "lowered"
  /\ UNCHANGED snode
  /\ UNCHANGED nonS

SNext == LowerSHL_PARTS \/ LowerSRx_PARTS

ShiftSpec == SInit /\ [][SNext]_vars

\* the 64-bit value of two words
Join(Lo, Hi) == Lo \cup {i + WordBits : i \in Hi}

\* the 64-bit shift the node stands for
Shift64(op, V, s) ==
  CASE op = "SHL_PARTS" -> {i + s : i \in V} \cap BitsOf(2 * WordBits)
    [] op = "SRL_PARTS" -> {i - s : i \in V} \cap BitsOf(2 * WordBits)
    [] op = "SRA_PARTS" -> ({i - s : i \in V} \cap BitsOf(2 * WordBits))
                           \cup (IF (2 * WordBits - 1) \in V
                                 THEN (2 * WordBits - s) .. (2 * WordBits - 1)
                                 ELSE {})

\* C14: for every 64-bit value (Hi, Lo) and every shift amount 0 <= s < 64
\* the two words LowerShiftLeftParts produces are the 64-bit left shift by
\* s, and the two words LowerShiftRightParts produces are the logical
\* (zero fill) or arithmetic (sign fill) right shift by s; neither word is
\* the undefined result of an out-of-range 32-bit shift.
C14_PartsEqualWideShift ==
  sphase = "lowered" =>
    /\ sparts.Lo # Undef /\ sparts.Hi # Undef
    /\ Join(sparts.Lo, sparts.Hi)
         = Shift64(snode.op, Join(snode.Lo, snode.Hi), snode.Shamt)

\* an arithmetic right shift by exactly 32 of a negative value: the low
\* word is the old high word and the high word is all ones
C14_Witness ==
  /\ sphase = "lowered" /\ snode.op = "SRA_PARTS" /\ snode.Shamt = 32
  /\ snode.Hi = {4, 9, 17, 30} \cup {WordBits - 1} \/ snode.Hi = {0, WordBits - 1}
  /\ sparts.Lo = snode.Hi /\ sparts.Hi = BitsOf(WordBits)

----------------------------------------------------------------------------
(* Register pseudo-instructions on the accumulator machine *)

\* 32-bit words are two's-complement integers; sums wrap
WrapAdd(a, b) ==
  IF a > 0 /\ b > 0 /\ a > MaxInt32 - b THEN (a + MinInt32) + (b + MinInt32)
  ELSE IF a < 0 /\ b < 0 /\ a < MinInt32 - b THEN (a - MinInt32) + (b - MinInt32)
  ELSE a + b

\* one's complement
Not32(a) == -1 - a

Bit(v, i) == IF i = 31 THEN v < 0 ELSE ((v \div (2 ^ i)) % 2) = 1

BitSet(v) == {i \in 0 .. 31 : Bit(v, i)}

RECURSIVE FromBits(_)
FromBits(S) ==
  IF S = {} THEN 0
  ELSE LET i == CHOOSE j \in S : TRUE
       IN  (IF i = 31 THEN MinInt32 ELSE 2 ^ i) + FromBits(S \ {i})

\* A + M + C of ADC and A + ~M + C of SBC, with the carry out
AddWithCarry(a, mval, cin) ==
  LET s1 == WrapAdd(a, mval)
      s  == WrapAdd(s1, IF cin THEN 1 ELSE 0)
  IN  [a |-> s, c |-> ULess(s1, a) \/ (cin /\ s = 0)]

\* signed division, rounding towards zero; MinInt32 / -1 wraps
SDivQ(a, b) ==
  IF b > 0 THEN (IF a < 0 /\ a % b # 0 THEN (a \div b) + 1 ELSE a \div b)
  ELSE IF b = MinInt32 THEN (IF a = MinInt32 THEN 1 ELSE 0)
  ELSE IF a = MinInt32 /\ b = -1 THEN MinInt32
  ELSE LET nb == -b
           t  == IF a < 0 /\ a % nb # 0 THEN (a \div nb) + 1 ELSE a \div nb
       IN  -t

SDivR(a, b) ==
  IF b = MinInt32 THEN (IF a = MinInt32 THEN 0 ELSE a)
  ELSE IF a = MinInt32 /\ b = -1 THEN 0
  ELSE a - SDivQ(a, b) * b

\* unsigned division of words held as two's-complement integers: a word
\* below zero stands for itself plus 2^32
UDivQR(a, b) ==
  IF b < 0 THEN (IF ULess(a, b) THEN [q |-> 0, r |-> a] ELSE [q |-> 1, r |-> a - b])
  ELSE IF a >= 0 THEN [q |-> a \div b, r |-> a % b]
  ELSE IF b = 1 THEN [q |-> a, r |-> 0]
  ELSE LET h  == ((a \div 2) + MaxInt32) + 1
           l  == a % 2
           q1 == h \div b
           r1 == h % b
       IN  IF r1 >= b - r1 - l
           THEN [q |-> 2 * q1 + 1, r |-> r1 - (b - r1 - l)]
           ELSE [q |-> 2 * q1, r |-> 2 * r1 + l]

GI(op, r, n) == [op |-> op, r |-> r, n |-> n]

\* the register whose direct-page slot is at offset n
RegAt(n) == n \div 4

\* what memory holds at an address
MemAt(addr) == WrapAdd(addr, 1000)

SetReg(m, r, v) == [m EXCEPT !.r = [q \in DOMAIN m.r |-> IF q = r THEN v ELSE m.r[q]]]

Access(m, kind, width, addr, val) ==
  [m EXCEPT !.acc = Append(m.acc, [kind |-> kind, width |-> width,
                                   addr |-> addr, val |-> val])]

\* one instruction on the machine m
GStep(i, m) ==
  CASE i.op = "LDA_DP"  -> [m EXCEPT !.a = m.r[RegAt(i.n)]]
    [] i.op = "STA_DP"  -> SetReg(m, RegAt(i.n), m.a)
    [] i.op = "STX_DP"  -> SetReg(m, RegAt(i.n), m.x)
    [] i.op = "TSX"     -> [m EXCEPT !.x = m.sp]
    [] i.op = "TXA"     -> [m EXCEPT !.a = m.x]
    [] i.op = "TTA"     -> [m EXCEPT !.a = m.t]
    [] i.op = "CLC"     -> [m EXCEPT !.c = FALSE]
    [] i.op = "SEC"     -> [m EXCEPT !.c = TRUE]
    [] i.op = "LDY_IMM" -> [m EXCEPT !.y = i.n]
    [] i.op = "ADC_IMM" -> [m EXCEPT !.a = AddWithCarry(m.a, i.n, m.c).a,
                                     !.c = AddWithCarry(m.a, i.n, m.c).c]
    [] i.op = "ADC_DP"  -> [m EXCEPT !.a = AddWithCarry(m.a, m.r[RegAt(i.n)], m.c).a,
                                     !.c = AddWithCarry(m.a, m.r[RegAt(i.n)], m.c).c]
    [] i.op = "SBC_DP"  -> [m EXCEPT !.a = AddWithCarry(m.a, Not32(m.r[RegAt(i.n)]), m.c).a,
                                     !.c = AddWithCarry(m.a, Not32(m.r[RegAt(i.n)]), m.c).c]
    [] i.op = "AND_DP"  -> [m EXCEPT !.a = FromBits(BitSet(m.a) \cap BitSet(m.r[RegAt(i.n)]))]
    [] i.op = "ORA_DP"  -> [m EXCEPT !.a = FromBits(BitSet(m.a) \cup BitSet(m.r[RegAt(i.n)]))]
    [] i.op = "EOR_DP"  -> [m EXCEPT !.a = FromBits((BitSet(m.a) \cup BitSet(m.r[RegAt(i.n)]))
                                                   \ (BitSet(m.a) \cap BitSet(m.r[RegAt(i.n)])))]
    [] i.op = "ASL_A"   -> [m EXCEPT !.a = WrapAdd(m.a, m.a), !.c = m.a < 0]
    [] i.op = "LSR_A"   -> [m EXCEPT !.a = IF m.a >= 0 THEN m.a \div 2
                                           ELSE ((m.a \div 2) + MaxInt32) + 1,
                                     !.c = m.a % 2 = 1]
    [] i.op = "DIV_DP"  -> [m EXCEPT !.a = SDivQ(m.a, m.r[RegAt(i.n)]),
                                     !.t = SDivR(m.a, m.r[RegAt(i.n)])]
    [] i.op = "DIVU_DP" -> [m EXCEPT !.a = UDivQR(m.a, m.r[RegAt(i.n)]).q,
                                     !.t = UDivQR(m.a, m.r[RegAt(i.n)]).r]
    [] i.op \in {"LDB_IND_Y", "LDW_IND_Y"} ->
         LET addr == WrapAdd(m.r[i.n], m.y)
         IN  Access(SetReg(m, i.r, MemAt(addr)), "load",
                    IF i.op = "LDB_IND_Y" THEN 1 ELSE 2, addr, MemAt(addr))
    [] i.op \in {"STB_IND_Y", "STW_IND_Y"} ->
         Access(m, "store", IF i.op = "STB_IND_Y" THEN 1 ELSE 2,
                WrapAdd(m.r[i.n], m.y), m.r[i.r])
    [] i.op \in {"LDF_S_ind", "LDF_ind"} ->
         Access([m EXCEPT !.f = MemAt(m.r[i.n])], "load",
                IF i.op = "LDF_S_ind" THEN 4 ELSE 8, m.r[i.n], MemAt(m.r[i.n]))
    [] i.op \in {"STF_S_ind", "STF_ind"} ->
         Access(m, "store", IF i.op = "STF_S_ind" THEN 4 ELSE 8, m.r[i.n], m.f)

AluPseudos == {"ADD_GPR", "SUB_GPR", "AND_GPR", "ORA_GPR", "EOR_GPR"}

DivPseudos == {"SDIV_GPR", "UDIV_GPR", "SREM_GPR", "UREM_GPR"}

ShiftPseudos == {"SHL_GPR", "SRL_GPR", "SRA_GPR"}

IntLoadPseudos == {"LOAD8", "LOAD16"}

IntStorePseudos == {"STORE8", "STORE16"}

FloatMemPseudos == {"LDF32", "LDF64", "STF32", "STF64"}

MemPseudos == IntLoadPseudos \cup IntStorePseudos \cup FloatMemPseudos

\* LDA src1; CLC or SEC where the operation has a carry; op src2; STA dst
ExpandAluGPRKeepCarry(MI) ==
  <<GI("LDA_DP", 0, getDPOffset(MI.s1)),
    GI(CASE MI.op = "ADD_GPR" -> "ADC_DP" [] MI.op = "SUB_GPR" -> "SBC_DP"
         [] MI.op = "AND_GPR" -> "AND_DP" [] MI.op = "ORA_GPR" -> "ORA_DP"
         [] MI.op = "EOR_GPR" -> "EOR_DP", 0, getDPOffset(MI.s2)),
    GI("STA_DP", 0, getDPOffset(MI.d))>>

ExpandAluGPR(MI) ==
  <<GI("LDA_DP", 0, getDPOffset(MI.s1))>>
  \o (CASE MI.op = "ADD_GPR" -> <<GI("CLC", 0, 0), GI("ADC_DP", 0, getDPOffset(MI.s2))>>
        [] MI.op = "SUB_GPR" -> <<GI("SEC", 0, 0), GI("SBC_DP", 0, getDPOffset(MI.s2))>>
        [] MI.op = "AND_GPR" -> <<GI("AND_DP", 0, getDPOffset(MI.s2))>>
        [] MI.op = "ORA_GPR" -> <<GI("ORA_DP", 0, getDPOffset(MI.s2))>>
        [] MI.op = "EOR_GPR" -> <<GI("EOR_DP", 0, getDPOffset(MI.s2))>>)
  \o <<GI("STA_DP", 0, getDPOffset(MI.d))>>

\* the remainder forms storing the accumulator like the quotient forms
ExpandDivRemStoreA(MI) ==
  <<GI("LDA_DP", 0, getDPOffset(MI.s1)),
    GI(IF MI.op \in {"SDIV_GPR", "SREM_GPR"} THEN "DIV_DP" ELSE "DIVU_DP", 0,
       getDPOffset(MI.s2)),
    GI("STA_DP", 0, getDPOffset(MI.d))>>

ExpandDivRem(MI) ==
  IF MI.op \in {"SDIV_GPR", "UDIV_GPR"}
  THEN <<GI("LDA_DP", 0, getDPOffset(MI.s1)),
         GI(IF MI.op = "SDIV_GPR" THEN "DIV_DP" ELSE "DIVU_DP", 0, getDPOffset(MI.s2)),
         GI("STA_DP", 0, getDPOffset(MI.d))>>
  ELSE <<GI("LDA_DP", 0, getDPOffset(MI.s1)),
         GI(IF MI.op = "SREM_GPR" THEN "DIV_DP" ELSE "DIVU_DP", 0, getDPOffset(MI.s2)),
         GI("TTA", 0, 0),
         GI("STA_DP", 0, getDPOffset(MI.d))>>

\* LDA src; one shift of A for each i < Amt && i < 32; STA dst
ExpandShiftGPR(MI) ==
  LET Amt == MI.off
      n   == IF Amt < 0 THEN 0 ELSE IF Amt < 32 THEN Amt ELSE 32
  IN  <<GI("LDA_DP", 0, getDPOffset(MI.s1))>>
      \o [i \in 1 .. n |->
            GI(CASE MI.op = "SHL_GPR" -> "ASL_A"
                 [] MI.op = "SRL_GPR" -> "LSR_A"
                 [] MI.op = "SRA_GPR" -> "LSR_A", 0, 0)]
      \o <<GI("STA_DP", 0, getDPOffset(MI.d))>>

\* Register TempReg of the byte and halfword expansions, and the register
\* the float expansions store the computed address to
TempReg(MI) == IF MI.op \in FloatMemPseudos THEN 0 ELSE 16

\* LOAD8/LOAD16/STORE8/STORE16 with base SP or R29
ExpandIntMem(MI) ==
  (IF MI.base = "SP"
   THEN <<GI("TSX", 0, 0), GI("STX_DP", 0, getDPOffset(TempReg(MI)))>>
   ELSE <<GI("LDA_DP", 0, getDPOffset(FramePointer)),
          GI("STA_DP", 0, getDPOffset(TempReg(MI)))>>)
  \o <<GI("LDY_IMM", 0, MI.off)>>
  \o <<GI(CASE MI.op = "LOAD8"   -> "LDB_IND_Y" [] MI.op = "LOAD16"  -> "LDW_IND_Y"
            [] MI.op = "STORE8"  -> "STB_IND_Y" [] MI.op = "STORE16" -> "STW_IND_Y",
          MI.d, TempReg(MI))>>

\* LDF32/LDF64/STF32/STF64 with base SP or R29 (never a register R0-R15)
ExpandFloatMem(MI) ==
  (IF MI.base = "SP" THEN <<GI("TSX", 0, 0), GI("TXA", 0, 0)>>
   ELSE <<GI("LDA_DP", 0, getDPOffset(FramePointer))>>)
  \o (IF MI.off # 0 THEN <<GI("CLC", 0, 0), GI("ADC_IMM", 0, MI.off)>> ELSE <<>>)
  \o <<GI("STA_DP", 0, getDPOffset(TempReg(MI)))>>
  \o <<GI(CASE MI.op = "LDF32" -> "LDF_S_ind" [] MI.op = "LDF64" -> "LDF_ind"
            [] MI.op = "STF32" -> "STF_S_ind" [] MI.op = "STF64" -> "STF_ind",
          0, TempReg(MI))>>


\* the general registers of the machine: four the allocator hands out and
\* the frame pointer
GRegs == {0, 1, 16, 17, FramePointer}

\* the function whose pseudo-instructions are expanded
GFunctions ==
  [stackSize : {8}, varSized : BOOLEAN, frameAddressTaken : {FALSE},
   disableFPElim : {FALSE}, modified : {{}}]

AllocatableRegs == {r \in GRegs : \A f \in GFunctions : r \notin getReservedRegs(f)}

MemOffsets == {0, 4, -4}

GprShiftAmounts == {0, 1, 4, 31}

GprPseudos ==
  {[op |-> o, d |-> d, s1 |-> a, s2 |-> b, base |-> "none", off |-> 0] :
     o \in AluPseudos \cup DivPseudos, d \in AllocatableRegs,
     a \in AllocatableRegs, b \in AllocatableRegs}
  \cup
  {[op |-> o, d |-> d, s1 |-> 0, s2 |-> 0, base |-> bs, off |-> k] :
     o \in MemPseudos, d \in AllocatableRegs, bs \in {"SP", "R29"}, k \in MemOffsets}
  \cup
  {[op |-> o, d |-> d, s1 |-> a, s2 |-> 0, base |-> "none", off |-> k] :
     o \in ShiftPseudos, d \in AllocatableRegs, a \in AllocatableRegs,
     k \in GprShiftAmounts}

RegFiles ==
  { [r \in GRegs |-> CASE r = 0 -> MaxInt32 [] r = 1 -> 1 [] r = 16 -> MinInt32
                       [] r = 17 -> -1 [] OTHER -> 8192],
    [r \in GRegs |-> CASE r = 0 -> 100 [] r = 1 -> 7 [] r = 16 -> -20
                       [] r = 17 -> 3 [] OTHER -> 8192] }

Machines ==
  {[r |-> rf, a |-> 11, x |-> 12, y |-> 13, t |-> 14, c |-> cy, sp |-> 2 ^ 16,
    f |-> 555, acc |-> <<>>] : rf \in RegFiles, cy \in BOOLEAN}

GInit ==
  /\ gphase = "pseudo"
  /\ gmi \in GprPseudos
  /\ gcode = <<>>
  /\ gpc = 1
  /\ g0 \in Machines
  /\ gm = g0
  /\ IdleButG

ExpandAlu ==
  /\ gphase = "pseudo" /\ gmi.op \in AluPseudos
  /\ gcode' = ExpandAluGPR(gmi)
  /\ gphase' = "run"
  /\ UNCHANGED <<gmi, gpc, g0, gm>>
  /\ UNCHANGED nonG

ExpandDiv ==
  /\ gphase = "pseudo" /\ gmi.op \in DivPseudos
  /\ gcode' = ExpandDivRem(gmi)
  /\ gphase' = "run"
  /\ UNCHANGED <<gmi, gpc, g0, gm>>
  /\ UNCHANGED nonG

ExpandShift ==
  /\ gphase = "pseudo" /\ gmi.op \in ShiftPseudos
  /\ gcode' = ExpandShiftGPR(gmi)
  /\ gphase' = "run"
  /\ UNCHANGED <<gmi, gpc, g0, gm>>
  /\ UNCHANGED nonG

ExpandMem ==
  /\ gphase = "pseudo" /\ gmi.op \in MemPseudos
  /\ gcode' = IF gmi.op \in FloatMemPseudos THEN ExpandFloatMem(gmi)
              ELSE ExpandIntMem(gmi)
  /\ gphase' = "run"
  /\ UNCHANGED <<gmi, gpc, g0, gm>>
  /\ UNCHANGED nonG

GExec ==
  /\ gphase = "run" /\ gpc <= Len(gcode)
  /\ gm' = GStep(gcode[gpc], gm)
  /\ gpc' = gpc + 1
  /\ UNCHANGED <<gphase, gmi, gcode, g0>>
  /\ UNCHANGED nonG

GFinish ==
  /\ gphase = "run" /\ gpc > Len(gcode)
  /\ gphase' = "done"
  /\ UNCHANGED <<gmi, gcode, gpc, g0, gm>>
  /\ UNCHANGED nonG

GNext == ExpandAlu \/ ExpandDiv \/ ExpandShift \/ ExpandMem \/ GExec \/ GFinish

GprSpec == GInit /\ [][GNext]_vars

\* the general registers other than d are as they were
OnlyChanged(d) == \A r \in GRegs : r # d => gm.r[r] = g0.r[r]

BaseValue0 == IF gmi.base = "SP" THEN g0.sp ELSE g0.r[FramePointer]

\* C15: a byte, halfword or floating-point load/store pseudo with SP or the
\* frame-base register as base accesses memory at exactly base + offset,
\* the scratch register it writes the address to is a reserved register,
\* no general register other than the destination of a load is changed,
\* and a store writes the value its source register held.
C15_StackAccessKeepsRegisters ==
  (gphase = "done" /\ gmi.op \in MemPseudos) =>
    /\ Len(gm.acc) = 1
    /\ gm.acc[1].addr = WrapAdd(BaseValue0, gmi.off)
    /\ \A f \in GFunctions : TempReg(gmi) \in getReservedRegs(f)
    /\ IF gmi.op \in IntLoadPseudos THEN OnlyChanged(gmi.d)
       ELSE \A r \in GRegs : gm.r[r] = g0.r[r]
    /\ gmi.op \in IntStorePseudos => gm.acc[1].val = g0.r[gmi.d]

Lo16(v) == v % 65536

Hi16(v) == v \div 65536

\* r is (a op b) modulo 2^32, without carry-in or borrow-in: sums and
\* differences compared half by half, logic operations bit by bit
IsAluResult(op, a, b, r) ==
  CASE op = "ADD_GPR" ->
         /\ Lo16(r) = (Lo16(a) + Lo16(b)) % 65536
         /\ (Hi16(r) - Hi16(a) - Hi16(b) - ((Lo16(a) + Lo16(b)) \div 65536)) % 65536 = 0
    [] op = "SUB_GPR" ->
         /\ Lo16(r) = (Lo16(a) - Lo16(b)) % 65536
         /\ (Hi16(r) - Hi16(a) + Hi16(b) + (IF Lo16(a) < Lo16(b) THEN 1 ELSE 0)) % 65536 = 0
    [] op = "AND_GPR" -> BitSet(r) = BitSet(a) \cap BitSet(b)
    [] op = "ORA_GPR" -> BitSet(r) = BitSet(a) \cup BitSet(b)
    [] op = "EOR_GPR" -> BitSet(r) = (BitSet(a) \cup BitSet(b)) \ (BitSet(a) \cap BitSet(b))

\* C16: for ADD_GPR, SUB_GPR, AND_GPR, ORA_GPR, EOR_GPR and every aliasing
\* among destination and the two sources, after the expanded accumulator
\* sequence the destination holds (first source op second source) modulo
\* 2^32, whatever the carry was before, and no other general register has
\* changed.
C16_AluPseudoResult ==
  (gphase = "done" /\ gmi.op \in AluPseudos) =>
    /\ IsAluResult(gmi.op, g0.r[gmi.s1], g0.r[gmi.s2], gm.r[gmi.d])
    /\ OnlyChanged(gmi.d)

\* an addition of a register to itself into itself that overflows, run
\* with the carry set beforehand
C16_Witness ==
  /\ gphase = "done" /\ gmi.op = "ADD_GPR"
  /\ gmi.d = 0 /\ gmi.s1 = 0 /\ gmi.s2 = 0
  /\ g0.c /\ g0.r[0] = MaxInt32
  /\ gm.r[0] = -2

\* the hardware divide of the expansion
Divides == {i \in 1 .. Len(gcode) : gcode[i].op \in {"DIV_DP", "DIVU_DP"}}

\* C17: the quotient pseudos (SDIV_GPR, UDIV_GPR) and the remainder
\* pseudos (SREM_GPR, UREM_GPR) expand to the same hardware divide of the
\* first source by the second (signed for S, unsigned for U); the quotient
\* forms store the accumulator result into the destination, the remainder
\* forms the temp-register result, and the destination is the only general
\* register changed.
C17_DivRemSameDivide ==
  (gphase = "done" /\ gmi.op \in DivPseudos) =>
    /\ gcode[1] = GI("LDA_DP", 0, getDPOffset(gmi.s1))
    /\ Divides = {2}
    /\ gcode[2] = GI(IF gmi.op \in {"SDIV_GPR", "SREM_GPR"} THEN "DIV_DP" ELSE "DIVU_DP",
                     0, getDPOffset(gmi.s2))
    /\ gm.r[gmi.d] =
         (CASE gmi.op = "SDIV_GPR" -> SDivQ(g0.r[gmi.s1], g0.r[gmi.s2])
            [] gmi.op = "UDIV_GPR" -> UDivQR(g0.r[gmi.s1], g0.r[gmi.s2]).q
            [] gmi.op = "SREM_GPR" -> SDivR(g0.r[gmi.s1], g0.r[gmi.s2])
            [] gmi.op = "UREM_GPR" -> UDivQR(g0.r[gmi.s1], g0.r[gmi.s2]).r)
    /\ gm.r[gmi.d] = (IF gmi.op \in {"SDIV_GPR", "UDIV_GPR"} THEN gm.a ELSE gm.t)
    /\ OnlyChanged(gmi.d)

\* a signed remainder of -20 by 7 written over the divisor: quotient -2 is
\* discarded, remainder -6 is stored
C17_Witness ==
  /\ gphase = "done" /\ gmi.op = "SREM_GPR"
  /\ gmi.s1 = 16 /\ gmi.s2 = 1 /\ gmi.d = 1
  /\ g0.r[16] = -20 /\ g0.r[1] = 7
  /\ gm.t = -6 /\ gm.r[1] = -6

\* C18: for every argument the calling convention places at stack offset
\* N, the address the caller's call lowering stores it to is the address
\* the callee's formal-argument lowering loads it from, the call having
\* pushed a 4-byte return address in between.
C18_ArgStoreMatchesLoad ==
  cphase \in {"body", "done"} =>
    \A N \in LowerFormalArguments(site.argBytes) :
      \A s \in cargs.st : \A l \in cargs.ld :
        (s[1] = N /\ l[1] = N) => s[2] = l[2]

\* with B at the callee's frame bottom, as eliminateFrameIndex takes it to
\* be, an argument stored at SP + N is loaded from four bytes lower
LoadBelowStore ==
  cphase = "body" =>
    \A s \in cargs.st : \A l \in cargs.ld :
      (s[1] = l[1] /\ l[2] = csp + l[1]) => l[2] = s[2] - 4

\* C19: the frame-base register is in the reserved-register set of a
\* function exactly when that function requires a frame base.
C19_ReservedIffFrameBase ==
  fphase # "idle" => (FramePointer \in getReservedRegs(fn) <=> hasFP(fn))

\* C19 as the code has it: the frame-base register is in the reserved set
\* of every function, whether or not the function requires a frame base,
\* and the reserved set is the same for every function.
C19_AlwaysReserved ==
  fphase # "idle" =>
    /\ FramePointer \in getReservedRegs(fn)
    /\ \A f \in Functions : getReservedRegs(f) = getReservedRegs(fn)

\* a framed function that needs no frame base, whose prologue does not
\* touch R29, and in which R29 is reserved all the same
C19_Witness ==
  /\ fphase = "framed" /\ ~hasFP(fn)
  /\ \A i \in 1 .. Len(prologue) : prologue[i] # FI("STA_DP", getDPOffset(FramePointer))
  /\ FramePointer \in getReservedRegs(fn)

\* C21: an instruction that reaches encoding with an opcode for which the
\* encoder has no encoding rule, or with a size for which it has no
\* encoding case, terminates compilation with an error; no bytes are
\* emitted in its place.
C21_UnencodableIsFatal ==
  (iphase # "inst"
     /\ (\/ imi.form.name \notin EncodableOpcodes
         \/ imi.form.emit = "bySize" /\ imi.form.offset \notin EncodableSizes))
    => (iphase = "failed" /\ iCB = <<>>)

\* C22: a frame-address or return-address request with a non-zero walk
\* depth aborts compilation with a descriptive message and never yields a
\* lowered value; only depth 0 yields a value.
C22_NonZeroDepthAborts ==
  (lphase \in {"addr", "fatal"} /\ node.op \in {"FRAMEADDR", "RETURNADDR"}) =>
    /\ node.lhs # 0 => (lphase = "fatal" /\ out.fatal /\ out.value = "none"
                          /\ out.msg \in {"Non-zero frame depth not supported",
                                          "Non-zero return address depth not supported"})
    /\ node.lhs = 0 => (lphase = "addr" /\ ~out.fatal /\ out.value # "none")
    /\ lphase = "addr" => node.lhs = 0

\* a frame-address request of depth 2^32 - 1 that ended in the fatal error
C22_Witness ==
  /\ lphase = "fatal" /\ node.op = "FRAMEADDR" /\ node.lhs = -1
  /\ out.msg = "Non-zero frame depth not supported"

----------------------------------------------------------------------------
(* C library: the bump allocator and atexit *)

\* __heap_start and the size of the heap region the linker script gives
HeapStart == 2 ^ 12

HeapSize == 16

HeapEnd == HeapStart + HeapSize

\* a * b modulo 2^32, for a small b >= 0
RECURSIVE Mul32(_, _)
Mul32(a, b) ==
  IF b = 0 THEN 0
  ELSE WrapAdd(IF b % 2 = 1 THEN a ELSE 0, Mul32(WrapAdd(a, a), b \div 2))

\* (size + 3) & ~3 on a 32-bit size_t
AlignUp(size) == WrapAdd(size, 3) - (WrapAdd(size, 3) % 4)

\* sys_sbrk(int incr): the pointer returned and the break afterwards
sys_sbrk(incr, hp) ==
  LET old_ptr == IF hp = 0 THEN HeapStart ELSE hp
      new_ptr == WrapAdd(old_ptr, incr)
  IN  IF ULess(HeapEnd, new_ptr) \/ ULess(new_ptr, HeapStart)
      THEN [ret |-> -1, heap_ptr |-> old_ptr]
      ELSE [ret |-> old_ptr, heap_ptr |-> new_ptr]

malloc(size, hp) ==
  IF size = 0 THEN [ret |-> 0, heap_ptr |-> hp]
  ELSE LET r == sys_sbrk(AlignUp(size), hp)
       IN  IF r.ret = -1 THEN [ret |-> 0, heap_ptr |-> r.heap_ptr] ELSE r

calloc(nmemb, size, hp) == malloc(Mul32(nmemb, size), hp)

\* realloc with a pointer that is not NULL; free does nothing
realloc(ptr, size, hp) ==
  IF ptr = 0 THEN malloc(size, hp)
  ELSE IF size = 0 THEN [ret |-> 0, heap_ptr |-> hp]
  ELSE malloc(size, hp)

ATEXIT_MAX == 32

\* the sizes asked for, as 32-bit words: -8 is 0xFFFFFFF8, -3 is 0xFFFFFFFD
RequestSizes == {0, 1, 4, 8, 20, -8, -3}

ElementCounts == {0, 1, 2, 2 ^ 30}

AtexitFns == {"f1", "f2"}

MaxCalls == 3

HInit ==
  /\ hphase = "run"
  /\ heap_ptr = 0
  /\ hblocks = <<>>
  /\ hfreed = {}
  /\ atexit_funcs = <<>> /\ atexit_count = 0 /\ hcalled = <<>>
  /\ hcalls = 0
  /\ IdleButH

\* the block a successful allocation returned
Returned(r, size) ==
  IF r.ret = 0 THEN hblocks ELSE Append(hblocks, [addr |-> r.ret, size |-> size])

Malloc ==
  /\ hphase = "run" /\ hcalls < MaxCalls
  /\ \E size \in RequestSizes :
       /\ heap_ptr' = malloc(size, heap_ptr).heap_ptr
       /\ hblocks' = Returned(malloc(size, heap_ptr), size)
  /\ hcalls' = hcalls + 1
  /\ UNCHANGED <<hphase, hfreed, atexit_funcs, atexit_count, hcalled>>
  /\ UNCHANGED nonH

Calloc ==
  /\ hphase = "run" /\ hcalls < MaxCalls
  /\ \E nmemb \in ElementCounts : \E size \in {4, 8} :
       /\ heap_ptr' = calloc(nmemb, size, heap_ptr).heap_ptr
       /\ hblocks' = Returned(calloc(nmemb, size, heap_ptr), Mul32(nmemb, size))
  /\ hcalls' = hcalls + 1
  /\ UNCHANGED <<hphase, hfreed, atexit_funcs, atexit_count, hcalled>>
  /\ UNCHANGED nonH

Realloc ==
  /\ hphase = "run" /\ hcalls < MaxCalls
  /\ \E ptr \in {0} \cup {hblocks[i].addr : i \in 1 .. Len(hblocks)} :
     \E size \in RequestSizes :
       /\ heap_ptr' = realloc(ptr, size, heap_ptr).heap_ptr
       /\ hblocks' = Returned(realloc(ptr, size, heap_ptr), size)
       /\ hfreed' = IF ptr # 0 /\ size = 0 THEN hfreed \cup {ptr} ELSE hfreed
  /\ hcalls' = hcalls + 1
  /\ UNCHANGED <<hphase, atexit_funcs, atexit_count, hcalled>>
  /\ UNCHANGED nonH

Free ==
  /\ hphase = "run" /\ hcalls < MaxCalls
  /\ \E i \in 1 .. Len(hblocks) : hfreed' = hfreed \cup {hblocks[i].addr}
  /\ hcalls' = hcalls + 1
  /\ UNCHANGED <<hphase, heap_ptr, hblocks, atexit_funcs, atexit_count, hcalled>>
  /\ UNCHANGED nonH

Atexit ==
  /\ hphase = "run" /\ hcalls < MaxCalls
  /\ \E func \in AtexitFns :
       IF atexit_count >= ATEXIT_MAX
       THEN UNCHANGED <<atexit_funcs, atexit_count>>
       ELSE /\ atexit_funcs' = Append(SubSeq(atexit_funcs, 1, atexit_count), func)
            /\ atexit_count' = atexit_count + 1
  /\ hcalls' = hcalls + 1
  /\ UNCHANGED <<hphase, heap_ptr, hblocks, hfreed, hcalled>>
  /\ UNCHANGED nonH

\* exit(status) is sys_exit(status), which halts the processor
Exit ==
  /\ hphase = "run"
  /\ hphase' = "halted"
  /\ hcalls' = hcalls + 1
  /\ UNCHANGED <<heap_ptr, hblocks, hfreed, atexit_funcs, atexit_count, hcalled>>
  /\ UNCHANGED nonH

\* main returns to _start, which halts the processor
ReturnFromMain ==
  /\ hphase = "run"
  /\ hphase' = "halted"
  /\ UNCHANGED <<heap_ptr, hblocks, hfreed, atexit_funcs, atexit_count, hcalled, hcalls>>
  /\ UNCHANGED nonH

HNext ==
  \/ Malloc \/ Calloc \/ Realloc \/ Free \/ Atexit \/ Exit \/ ReturnFromMain

LibcSpec == HInit /\ [][HNext]_vars

\* the block lies wholly between __heap_start and __heap_end
InHeap(b) ==
  /\ ~ULess(b.addr, HeapStart) /\ ~ULess(HeapEnd, b.addr)
  /\ ~ULess(HeapEnd - b.addr, b.size)

\* two blocks share a byte, or start at the same address
Overlap(a, b) ==
  \/ a.addr = b.addr
  \/ /\ InHeap(a) /\ InHeap(b)
     /\ a.addr < b.addr + b.size /\ b.addr < a.addr + a.size
  \/ ~InHeap(a) /\ ~ULess(b.addr, a.addr)
  \/ ~InHeap(b) /\ ~ULess(a.addr, b.addr)

\* C23: over any sequence of malloc, calloc, realloc and free calls, every
\* block returned by a successful allocation is non-null, starts at a
\* different address from and does not overlap any block returned earlier
\* (freed or not), and lies wholly inside the heap region between
\* __heap_start and __heap_end.
C23_BlocksDisjointInHeap ==
  \A i \in 1 .. Len(hblocks) :
    /\ hblocks[i].addr # 0
    /\ InHeap(hblocks[i])
    /\ \A j \in 1 .. (i - 1) : ~Overlap(hblocks[j], hblocks[i])

\* the same for requests that fit what is left of the heap: the case the
\* allocator handles
SmallRequestsDisjoint ==
  (\A i \in 1 .. Len(hblocks) : hblocks[i].size > 0 /\ hblocks[i].size <= HeapSize) =>
    C23_BlocksDisjointInHeap

\* C30: every function successfully registered with atexit is called
\* exactly once, in reverse order of registration, before the program
\* halts, whether the program ends by calling exit or by returning from
\* main.
C30_AtexitCalledAtHalt ==
  hphase = "halted" => hcalled = Reverse(SubSeq(atexit_funcs, 1, atexit_count))

\* C24: for the signed less-than and signed greater-or-equal relations,
\* the conditional branch emitted after the compare (BMI, respectively
\* BPL) is taken exactly when the signed relation holds between the two
\* 32-bit operands, also when their difference overflows the signed
\* 32-bit range.
C24_SignBranchIsSignedRelation ==
  (phase = "done" /\ mi.opc \in {"BR_CC_CMP_PSEUDO", "CMP_BR_CC"}
     /\ mi.cc \in {"SETLT", "SETGE"}) =>
    (exit = "target" <=> PseudoCond(mi))

\* the same where the difference of the operands does not overflow
NoOverflowSignBranch ==
  (phase = "done" /\ mi.opc \in {"BR_CC_CMP_PSEUDO", "CMP_BR_CC"}
     /\ mi.cc \in {"SETLT", "SETGE"}
     /\ (RegInit(mi.lhs) < 0) = (RegInit(mi.rhs) < 0)) =>
    (exit = "target" <=> PseudoCond(mi))

\* whether the condition of a select expanded by the custom inserter holds
InsertedCond(m) ==
  IF m.opc = "SELECT" THEN CondHolds(m.cc, RegInit(m.lhs), RegInit(m.rhs))
  ELSE FpCondHolds(m.cc, m.fcmp)

\* C25: for a select whose flags come from a separately emitted compare
\* (the SELECT pseudo and the floating-point select), the single
\* conditional branch that emitSelect / emitSelectCCFP chooses for
\* condition code cc is taken exactly when cc holds, for every condition
\* code the DAG lowering can hand to it, the floating-point ordered and
\* unordered codes included.
C25_SelectBranchExact ==
  (phase = "done" /\ mi.opc \in InsertedPseudos) =>
    (exit = "target" <=> InsertedCond(mi))

\* the branch is exact for EQ, NE and the unsigned relations after an
\* integer compare
IntegerSelectBranchExact ==
  (phase = "done" /\ mi.opc = "SELECT" /\ mi.cc \notin {"SETLT", "SETGE"}) =>
    (exit = "target" <=> InsertedCond(mi))

\* the byte offset the hardware branches to from branch k of c: the
\* address after the branch plus the sign-extended 16-bit offset the
\* encoder emits for the "*+N" immediate
HardwareTarget(c, k) ==
  StartOf(c, k) + InstrSize(c[k])
    + SignExt16(emitImm16([isImm |-> TRUE, isConst |-> FALSE, imm |-> c[k].imm],
                          1, TRUE).field)


\* C26: every literal branch displacement of the SELECT_CC_PSEUDO and
\* SELECT_CC_FP_PSEUDO expansions, counted from the start of its own
\* branch and converted by the encoder to a hardware offset, lands on the
\* first byte of the conditional register copy or of the instruction
\* right after that copy (branches are 3 bytes, the copy 5 bytes).
C26_SelectDisplacementsLand ==
  (phase # "pseudo" /\ mi.opc \in SelectPseudos) =>
    \A k \in 1 .. Len(code) :
      code[k].tgt = "imm" =>
        /\ code[Len(code)].op = "MOVR_DP"
        /\ HardwareTarget(code, k) \in {StartOf(code, Len(code)), CodeSize(code)}

\* a taken branch of a less-or-equal sequence has landed on the
\* conditional copy, and one of a greater-than sequence behind it
C26_Witness ==
  /\ phase = "run"
  /\ mi.opc = "SELECT_CC_FP_PSEUDO"
  /\ SkipBranches(mi.cc) = <<BrImm("BEQ", 9), BrImm("BMI", 6), BrImm("BRA", 8)>>
  /\ mi.t # mi.dst /\ mi.f # mi.dst
  /\ ip = StartOf(code, Len(code))
  /\ code[Len(code)].op = "MOVR_DP"

\* the sign-filling right shift of v by k
RECURSIVE AShr(_, _)
AShr(v, k) == IF k = 0 THEN v ELSE AShr(v \div 2, k - 1)

\* C28: for every 32-bit source value, negative ones included, and every
\* shift amount k with 0 <= k < 32, the expansion of SRA_GPR leaves in
\* the destination the sign-filling right shift of the source by k.
C28_SraIsArithmeticShift ==
  (gphase = "done" /\ gmi.op = "SRA_GPR") =>
    gm.r[gmi.d] = AShr(g0.r[gmi.s1], gmi.off)

\* the expansion is right where the source is not negative or the
\* amount is zero, and the logical shift it emits is right for SRL_GPR
SraOfNonNegative ==
  (gphase = "done" /\ gmi.op = "SRA_GPR"
     /\ (g0.r[gmi.s1] >= 0 \/ gmi.off = 0)) =>
    gm.r[gmi.d] = AShr(g0.r[gmi.s1], gmi.off)

\* the direct-page offsets the LDA/PHA pairs of c push, in order
PushedSlots(c) == [i \in 1 .. (Len(c) \div 2) |-> c[2 * i - 1].arg]

\* the direct-page offsets the PLA/STA pairs of c pop into, in order
PoppedSlots(c) == [i \in 1 .. (Len(c) \div 2) |-> c[2 * i].arg]

\* the callee-saved list without the frame pointer where the prologue
\* saves it
SpilledRegs(f, CSI) == SelectSeq(CSI, LAMBDA r : ~(r = FramePointer /\ hasFP(f)))

\* C29: for any callee-saved list, the restore sequence pops exactly the
\* registers the spill sequence pushed, in the reverse order, so that
\* each callee-saved register receives the value it held at the spill
\* and the stack pointer after the restore equals the stack pointer
\* before the spill.
C29_RestorePopsWhatSpillPushed ==
  fphase \in {"restored", "prologue", "framed"} =>
    LET CSI == SortedRegs(savedRegs)
    IN  /\ \A i \in 1 .. Len(spillCode) :
              spillCode[i].op = (IF i % 2 = 1 THEN "LDA_DP" ELSE "PHA")
        /\ \A i \in 1 .. Len(restoreCode) :
              restoreCode[i].op = (IF i % 2 = 1 THEN "PLA" ELSE "STA_DP")
        /\ PushedSlots(spillCode)
              = [i \in 1 .. Len(SpilledRegs(fn, CSI)) |-> getDPOffset(SpilledRegs(fn, CSI)[i])]
        /\ PoppedSlots(restoreCode) = Reverse(PushedSlots(spillCode))
        /\ \A cl \in BodyClobbers :
              LET m1 == RunFrameCode(spillCode, entry)
                  m2 == RunFrameCode(restoreCode, RunBody(fn, m1, cl))
              IN  /\ m1.sp = entry.sp - 4 * Len(SpilledRegs(fn, CSI))
                  /\ m2.sp = entry.sp
                  /\ \A r \in savedRegs :
                        m2.dp[getDPOffset(r)] = entry.dp[getDPOffset(r)]

\* a function without a frame pointer that modifies R16, R17 and R29:
\* three pushes, a body that overwrites the three, three pops
C29_Witness ==
  /\ fphase = "restored" /\ ~hasFP(fn)
  /\ savedRegs = {16, 17, FramePointer}
  /\ PushedSlots(spillCode) = <<64, 68, 116>>
  /\ PoppedSlots(restoreCode) = <<116, 68, 64>>
  /\ RunFrameCode(spillCode, entry).sp = entry.sp - 12
  /\ RunBody(fn, RunFrameCode(spillCode, entry),
             [a |-> 99, x |-> 99, c |-> TRUE]).dp[64] = 4242

\* the stack pointer the prologue leaves, before the callee-save pushes;
\* SP is the address of the lowest byte in use ("SP points to the bottom
\* of the stack frame", "FP now points to saved FP location")
PrologueSP == RunFrameCode(prologue, entry).sp

\* the bytes of a local slot as a reference resolves them
SlotLo(r) == FinalAddress(r)

\* a local slot holds one 32-bit word
SlotHi(r) == FinalAddress(r) + 4

\* [lo1, hi1) and [lo2, hi2) share a byte
RangesMeet(lo1, hi1, lo2, hi2) == lo1 < hi2 /\ lo2 < hi1

\* C27: after the prologue has run, the resolved address range of every
\* local frame slot lies inside the stack area the prologue allocated
\* for the function, and overlaps neither the saved previous frame-base
\* value, nor the return address, nor any callee-saved register pushed
\* by the spill sequence.
C27_LocalSlotsInsideFrame ==
  \A r \in refs :
    r.slot < 0 =>
      \* inside the area [SP, SP + StackSize) the prologue allocated
      /\ PrologueSP <= SlotLo(r) /\ SlotHi(r) <= PrologueSP + fn.stackSize
      \* clear of the saved frame pointer, pushed just below the entry SP
      /\ hasFP(fn) => ~RangesMeet(SlotLo(r), SlotHi(r), entry.sp - 4, entry.sp)
      \* clear of the return address, at the entry SP
      /\ ~RangesMeet(SlotLo(r), SlotHi(r), entry.sp, entry.sp + 4)
      \* clear of the callee-saved registers pushed below the area
      /\ ~RangesMeet(SlotLo(r), SlotHi(r), AfterPrologue.sp, PrologueSP)

\* the slots lie inside the allocated area where the function has no
\* frame pointer, pushes no callee-saved register and the reference is
\* resolved by getFrameIndexReference
PlainFrameSlotsInside ==
  \A r \in refs :
    (r.slot < 0 /\ ~hasFP(fn) /\ savedRegs = {} /\ r.by = "getFrameIndexReference") =>
      /\ PrologueSP <= SlotLo(r) /\ SlotHi(r) <= PrologueSP + fn.stackSize
      /\ ~RangesMeet(SlotLo(r), SlotHi(r), entry.sp, entry.sp + 4)

====
